---- MODULE Spec2Model ----
(***************************************************************************)
(* Protocol engine of the PLAF203 pet feeder backend (plaf203.py): the     *)
(* topic router of Client, the heartbeat Watchdog, and the session state   *)
(* machine of Backend.  Every Backend handler is one operator that returns *)
(* the ordered list of effects the handler's code performs (publishes,     *)
(* upward callbacks, assignments to is_online) and how it ended; one       *)
(* action applies a whole handler to the state.                            *)
(*                                                                         *)
(* Upward callbacks (the Plaf203 UI layer) are treated as returning        *)
(* normally; they are recorded in the effect list only.                    *)
(***************************************************************************)
EXTENDS Integers, Sequences, FiniteSets, TLC

(* ------------------------------ bounds -------------------------------- *)
\* largest heartbeat sequence count the device sends
MaxCount == 1
\* number of distinct device-generated correlation ids
MaxMsgId == 1
\* timers that may exist in the scheduler (pending or handed to the worker)
MaxTimers == 2
\* seconds of wall-clock time that pass in one Tick
TickSec == 41

\* largest whole-second timestamp handed to the drift check
MaxDriftSec == 11

\* plan ids the user sends run from 1 to MaxPlanId
MaxPlanId == 2

(* ------------------------- program constants -------------------------- *)
HEARTBEAT_WATCHDOG_PERIOD_SEC == 51 + 30
NTP_SYNC_TIME_DIFF_THRESHOLD_SEC == 10

\* Code enum
OK == 0
ERROR_1 == 1

\* Watchdog.handle = None, and "no msgId in this envelope"
None == 0

(* ----------------------------- Commands ------------------------------- *)
Commands ==
  { "ATTR_GET_SERVICE", "ATTR_PUSH_EVENT", "ATTR_SET_SERVICE", "BINDING",
    "DETECTION_EVENT", "DEVICE_FEEDING_PLAN_SERVICE", "DEVICE_INFO_SERVICE",
    "DEVICE_PROPERTIES_SERVICE", "DEVICE_REBOOT", "DEVICE_START_EVENT",
    "ERROR_EVENT", "FEEDING_PLAN_SERVICE", "GET_CONFIG",
    "GET_FEEDING_PLAN_EVENT", "GRAIN_OUTPUT_EVENT", "HEARTBEAT",
    "INITIALIZE_SD_CARD_SERVICE", "MANUAL_FEEDING_SERVICE", "NTP", "NTP_SYNC",
    "OTA_INFORM", "OTA_PROGRESS", "OTA_UPGRADE", "RESET", "RESTORE",
    "SERVER_CONFIG_PUSH", "TUTK_CONTRACT_SERVICE", "UNBIND",
    "WIFI_CHANGE_SERVICE", "WIFI_RECONNECT_SERVICE" }

\* Commands whose documentation says the device sends them and waits for the
\* server's response
DeviceTwoWay ==
  { "ATTR_PUSH_EVENT", "DEVICE_START_EVENT", "GET_FEEDING_PLAN_EVENT",
    "GRAIN_OUTPUT_EVENT", "ERROR_EVENT", "OTA_INFORM", "OTA_PROGRESS",
    "RESET", "BINDING" }

\* the seven streams; an inbound envelope arrives on <stream>/post, an
\* outbound one is published on <stream>/sub
Topics == { "heart", "ota", "ntp", "config", "event", "service", "system" }

(* ------------------------------ router -------------------------------- *)
\* the cmd values each receive callback of Client compares against
RecvCmds(topic) ==
  CASE topic = "heart"   -> { "HEARTBEAT" }
    [] topic = "ntp"     -> { "NTP", "NTP_SYNC" }
    [] topic = "ota"     -> { "OTA_INFORM", "OTA_PROGRESS", "OTA_UPGRADE" }
    [] topic = "service" -> { "ATTR_SET_SERVICE", "DEVICE_FEEDING_PLAN_SERVICE",
                              "DEVICE_INFO_SERVICE", "DEVICE_PROPERTIES_SERVICE",
                              "DEVICE_REBOOT", "FEEDING_PLAN_SERVICE",
                              "INITIALIZE_SD_CARD_SERVICE",
                              "MANUAL_FEEDING_SERVICE", "TUTK_CONTRACT_SERVICE",
                              "WIFI_CHANGE_SERVICE", "WIFI_RECONNECT_SERVICE" }
    [] topic = "event"   -> { "ATTR_GET_SERVICE", "ATTR_PUSH_EVENT",
                              "DETECTION_EVENT", "DEVICE_START_EVENT",
                              "ERROR_EVENT", "GET_FEEDING_PLAN_EVENT",
                              "GRAIN_OUTPUT_EVENT" }
    [] topic = "config"  -> { "GET_CONFIG", "SERVER_CONFIG_PUSH" }
    [] topic = "system"  -> { "BINDING", "DEVICE_REBOOT", "RESET", "RESTORE",
                              "UNBIND" }

\* the callbacks Backend.initialize registers with the Client
Registered ==
  { "HEARTBEAT", "NTP", "NTP_SYNC", "DEVICE_START_EVENT", "DEVICE_REBOOT",
    "RESTORE", "INITIALIZE_SD_CARD_SERVICE", "WIFI_RECONNECT_SERVICE",
    "ATTR_GET_SERVICE", "ATTR_PUSH_EVENT", "ATTR_SET_SERVICE", "GET_CONFIG",
    "GET_FEEDING_PLAN_EVENT", "MANUAL_FEEDING_SERVICE", "FEEDING_PLAN_SERVICE",
    "GRAIN_OUTPUT_EVENT" }

\* callback attributes the receive callbacks read but Client.__init__ never
\* creates (it creates ota_infom_callback and device_feeding_plan_service);
\* no listener is registered for them either, so reading them raises
MissingCallbackAttr == { "OTA_INFORM", "DEVICE_FEEDING_PLAN_SERVICE" }

(* --------------------------- effect records --------------------------- *)
\* "this envelope has no code field"
NoCode == -1

\* Client._mqtt_send of an envelope on <topic>/sub
Pub(topic, cmd, msgId, code, body) ==
  [kind |-> "pub", name |-> cmd, topic |-> topic, msgId |-> msgId,
   code |-> code, arg |-> body]

\* an upward callback invoked with arguments arg
Cb(name, arg) ==
  [kind |-> "cb", name |-> name, topic |-> "", msgId |-> None,
   code |-> NoCode, arg |-> arg]

\* the assignment self.is_online = val
SetOnline(val) ==
  [kind |-> "set", name |-> "is_online", topic |-> "", msgId |-> None,
   code |-> NoCode, arg |-> <<val>>]

\* value of is_online after the assignments of an effect list were executed
RECURSIVE ApplySets(_, _)
ApplySets(effects, cur) ==
  IF effects = <<>> THEN cur
  ELSE ApplySets(Tail(effects),
                 IF Head(effects).kind = "set" THEN Head(effects).arg[1] ELSE cur)

Abs(x) == IF x < 0 THEN -x ELSE x

(* ------------------------------- inputs ------------------------------- *)
\* device-generated correlation ids, and ids MessageId.generate() may return
MsgIds == 1..MaxMsgId
GenIds == { 101 }

\* Timestamp.now() while a handler runs, in milliseconds on the model's scale
Now == 1500

\* device timestamp minus server time, in milliseconds
Deltas == { 9000, -10000 }

\* hours the server's local zone is ahead of UTC
TimezoneOffsetHours == 2

\* grain quantities a GRAIN_OUTPUT_EVENT reports
Quantities == { 4, 5 }

ExecSteps == { "GRAIN_START", "GRAIN_END", "GRAIN_BLOCKING" }

\* GrainOutputType values a GRAIN_OUTPUT_EVENT reports
GrainOutputTypes == { "FEED_PLAN", "MANUAL_FEED" }

\* an attribute bag: every key is <<>> when absent from the payload and
\* <<v>> when present with wire value v
NoAttrs ==
  [enableAudio |-> <<>>, audioUrl |-> <<>>, lightingStartTimeUtc |-> <<>>]

AttrBags ==
  { NoAttrs,
    [NoAttrs EXCEPT !.enableAudio = <<TRUE>>],
    [NoAttrs EXCEPT !.audioUrl = <<"u1">>],
    [NoAttrs EXCEPT !.lightingStartTimeUtc = << <<8, 30>> >>] }

\* an inbound envelope; fields a command does not carry keep these values.
\* form tells what the payload text is: "ok" a JSON object with every field
\* its command requires, "no_field" one that lacks a required field,
\* "no_cmd" a JSON object without cmd, "not_json" no JSON at all
NoEnv ==
  [cmd |-> "", msgId |-> None, timestamp |-> 0, count |-> 0, code |-> OK,
   success |-> TRUE, exec_step |-> "", type_ |-> "", expected |-> 0,
   actual |-> 0,
   attrs |-> NoAttrs, form |-> "ok"]

\* acknowledgements of server requests (msgId, ts, code) whose handler
\* compares the timestamp with server time; an acknowledgement echoes the
\* msgId the server generated for the request
AckCmds ==
  { "INITIALIZE_SD_CARD_SERVICE", "ATTR_SET_SERVICE", "MANUAL_FEEDING_SERVICE",
    "FEEDING_PLAN_SERVICE", "NTP_SYNC" }

\* acknowledgements whose handler never reads the timestamp; their
\* envelopes carry one that is 10 s off
OfflineAckCmds == { "DEVICE_REBOOT", "RESTORE", "WIFI_RECONNECT_SERVICE" }

\* commands whose envelopes carry only msgId and ts besides fields the
\* engine never looks at
PlainCmds ==
  { "GET_FEEDING_PLAN_EVENT", "GET_CONFIG" }

\* commands for which Backend registers no handler, and a cmd tag the
\* protocol does not know
UnhandledCmds == (Commands \ Registered) \cup { "BOGUS" }

Envelopes ==
  { [NoEnv EXCEPT !.cmd = "HEARTBEAT", !.timestamp = Now + d, !.count = c] :
      d \in Deltas, c \in 0..MaxCount }
  \cup { [NoEnv EXCEPT !.cmd = "NTP", !.timestamp = Now + d] : d \in Deltas }
  \cup { [NoEnv EXCEPT !.cmd = c, !.msgId = m, !.timestamp = Now + d, !.code = k] :
      c \in AckCmds, m \in GenIds, d \in Deltas, k \in { OK, ERROR_1 } }
  \cup { [NoEnv EXCEPT !.cmd = c, !.msgId = m, !.timestamp = Now - 10000,
                       !.code = k] :
      c \in OfflineAckCmds, m \in GenIds, k \in { OK, ERROR_1 } }
  \cup { [NoEnv EXCEPT !.cmd = c, !.msgId = m, !.timestamp = Now + d] :
      c \in PlainCmds, m \in MsgIds, d \in Deltas }
  \cup { [NoEnv EXCEPT !.cmd = "DEVICE_START_EVENT", !.msgId = m, !.timestamp = Now + d] :
      m \in MsgIds, d \in Deltas }
  \cup { [NoEnv EXCEPT !.cmd = "DEVICE_START_EVENT", !.msgId = m,
                       !.success = FALSE] :
      m \in MsgIds }
  \cup { [NoEnv EXCEPT !.cmd = "GRAIN_OUTPUT_EVENT", !.msgId = m, !.timestamp = Now + d,
                       !.exec_step = e, !.type_ = t, !.expected = 5,
                       !.actual = a] :
      m \in MsgIds, d \in Deltas, e \in ExecSteps, t \in GrainOutputTypes,
      a \in Quantities }
  \cup { [NoEnv EXCEPT !.cmd = c, !.msgId = m, !.timestamp = Now + d, !.attrs = a] :
      c \in { "ATTR_PUSH_EVENT", "ATTR_GET_SERVICE" }, m \in MsgIds,
      d \in Deltas, a \in AttrBags }
  \cup { [NoEnv EXCEPT !.cmd = c, !.msgId = m] :
      c \in UnhandledCmds, m \in MsgIds }

(* ------------------------------ FoodPlan ------------------------------ *)
\* FoodPlan: execution_time is <<hour, minute>> in the server's local zone,
\* scheduled_days the list of Weekday values
Plan1 ==
  [id_ |-> 1, execution_time |-> <<8, 30>>, scheduled_days |-> <<1, 3>>,
   enable_audio |-> FALSE, play_audio_times |-> 0, grain_num |-> 5]

Plan2 ==
  [id_ |-> 2, execution_time |-> <<0, 15>>, scheduled_days |-> <<7>>,
   enable_audio |-> TRUE, play_audio_times |-> 2, grain_num |-> 3]

\* plan sets the storage or the user can hand to the Backend
PlanSets == { << >>, << Plan1, Plan2 >> }

\* "no plan"
NoPlan ==
  [id_ |-> 0, execution_time |-> <<0, 0>>, scheduled_days |-> << >>,
   enable_audio |-> FALSE, play_audio_times |-> 0, grain_num |-> 0]

\* the names of Weekday, by value
WeekdayNames ==
  << "MONDAY", "TUESDAY", "WEDNESDAY", "THURSDAY", "FRIDAY", "SATURDAY",
     "SUNDAY" >>

\* WeekdaySchedule.to_list: the name of every day
to_list(value) == [i \in 1..Len(value) |-> WeekdayNames[value[i]]]

\* WeekdaySchedule.from_list: Weekday[item] of every name
from_list(data) ==
  [i \in 1..Len(data) |-> CHOOSE v \in 1..7 : WeekdayNames[v] = data[i]]

\* FoodPlan.to_dict
FoodPlan_to_dict(plan) ==
  [id |-> plan.id_,
   execution_time |-> [hour |-> plan.execution_time[1],
                       minute |-> plan.execution_time[2]],
   scheduled_days |-> to_list(plan.scheduled_days),
   enable_audio |-> plan.enable_audio,
   play_audio_times |-> plan.play_audio_times,
   grain_num |-> plan.grain_num]

\* FoodPlan.from_dict
FoodPlan_from_dict(data) ==
  [id_ |-> data.id,
   execution_time |-> << data.execution_time.hour, data.execution_time.minute >>,
   scheduled_days |-> from_list(data.scheduled_days),
   enable_audio |-> data.enable_audio,
   play_audio_times |-> data.play_audio_times,
   grain_num |-> data.grain_num]

\* FoodPlans.to_dict
FoodPlans_to_dict(plans) == [i \in 1..Len(plans) |-> FoodPlan_to_dict(plans[i])]

\* FoodPlans.from_dict
FoodPlans_from_dict(data) == [i \in 1..Len(data) |-> FoodPlan_from_dict(data[i])]

\* FoodPlans.plan_set that keeps the list short: a plan with a new id takes
\* the place of the last plan
plan_set_replaces_last(plans, food_plan) ==
  LET found == { i \in 1..Len(plans) : plans[i].id_ = food_plan.id_ }
  IN  IF found # { }
      THEN [plans EXCEPT ![CHOOSE i \in found : \A j \in found : i <= j]
                           = food_plan]
      ELSE IF plans = << >> THEN << food_plan >>
           ELSE [plans EXCEPT ![Len(plans)] = food_plan]

\* FoodPlans.plan_set that always appends
plan_set_append(plans, food_plan) == Append(plans, food_plan)

\* FoodPlans.plan_set: the first plan with the id takes over every field of
\* food_plan (FoodPlan.set); without such a plan food_plan is appended
plan_set(plans, food_plan) ==
  LET found == { i \in 1..Len(plans) : plans[i].id_ = food_plan.id_ }
  IN  IF found # { }
      THEN [plans EXCEPT ![CHOOSE i \in found : \A j \in found : i <= j]
                           = food_plan]
      ELSE Append(plans, food_plan)

\* the plan payloads the user publishes on food/cmd/plan_<n>
PlanPayloads ==
  { [id |-> i,
     execution_time |-> [hour |-> v[1][1], minute |-> v[1][2]],
     scheduled_days |-> v[2], enable_audio |-> v[3],
     play_audio_times |-> v[4], grain_num |-> q] :
    i \in 1..MaxPlanId,
    v \in { << <<8, 30>>, << "MONDAY", "WEDNESDAY" >>, FALSE, 0 >>,
            << <<0, 15>>, << "SUNDAY" >>, TRUE, 2 >> },
    q \in { 3, 5 } }

(* ------------------------------- state -------------------------------- *)
VARIABLES
  is_online,                \* Backend.is_online
  last_heartbeat_count,     \* Backend.last_heartbeat_count
  food_plans,               \* Backend.food_plans.plans
  settings_audio_enabled,   \* Backend.settings_audio_enabled
  settings_audio_file_url,  \* Backend.settings_audio_file_url
  handle,                   \* Watchdog.handle (None or a timer id)
  timers,                   \* scheduler: pending run_in timers [id, remaining]
  dispatched,               \* timers that expired, callback not yet run
  fires_since_reset,        \* _watchdog_run executions since the last reset()
  silent,                   \* no envelope has arrived since Backend.initialize
  log,                      \* effects of the operation that ran last
  last                      \* the operation that ran last and the state before it

vars ==
  << is_online, last_heartbeat_count, food_plans, settings_audio_enabled,
     settings_audio_file_url, handle, timers, dispatched, fires_since_reset,
     silent, log, last >>

(* ------------------------------- codec -------------------------------- *)
\* Timestamp.to_timestamp_epoch_ms: whole seconds, written as milliseconds
to_timestamp_epoch_ms(value) == (value \div 1000) * 1000

\* HourMinTimestamp.to_mqtt_payload_value: local time of day to UTC "HH:MM"
to_mqtt_payload_value(time) ==
  << (time[1] - TimezoneOffsetHours) % 24, time[2] >>

\* WeekdaySchedule.to_mqtt_payload_value: the values, padded with 0 to 7
repeat_day_payload(days) ==
  days \o [i \in 1..(IF Len(days) < 7 THEN 7 - Len(days) ELSE 0) |-> 0]

\* one entry of FeedingPlanServiceOut.to_mqtt_payload
FeedingPlanOut(food_plan, sync_time) ==
  [planId |-> food_plan.id_,
   executionTime |-> to_mqtt_payload_value(food_plan.execution_time),
   repeatDay |-> repeat_day_payload(food_plan.scheduled_days),
   enableAudio |-> food_plan.enable_audio,
   audioTimes |-> food_plan.play_audio_times,
   grainNum |-> food_plan.grain_num,
   syncTime |-> to_timestamp_epoch_ms(sync_time)]

\* from_mqtt_payload of the command's In class returns normally; reading a
\* missing required field raises KeyError, and the HH:MM decoder reads the
\* undefined name time_string and raises
Decodes(env) ==
  /\ env.form # "no_field"
  /\ ~ ( env.cmd \in { "ATTR_PUSH_EVENT", "ATTR_GET_SERVICE" }
         /\ env.attrs.lightingStartTimeUtc # <<>> )

(* ------------------------------ Backend ------------------------------- *)
\* what a handler did: its effects in program order, how it ended ("ok" or
\* "raised"), whether it called heartbeat_watchdog.reset(), and the values
\* it left in last_heartbeat_count and the audio cache
Ret(effects, result, reset) ==
  [effects |-> effects, result |-> result, reset |-> reset,
   count |-> last_heartbeat_count,
   audio |-> << settings_audio_enabled, settings_audio_file_url >>]

\* _device_timestamp_sync_drift_check accepting a delta equal to the threshold
_device_timestamp_sync_drift_check_inclusive(timestamp_backend, timestamp_device) ==
  Abs(timestamp_backend - timestamp_device)
    <= NTP_SYNC_TIME_DIFF_THRESHOLD_SEC * 1000

_device_timestamp_sync_drift_check(timestamp_backend, timestamp_device) ==
  Abs(timestamp_backend - timestamp_device)
    < NTP_SYNC_TIME_DIFF_THRESHOLD_SEC * 1000

\* _device_timestamp_sync_drift_check_and_adjust that never sends anything
_device_timestamp_sync_drift_check_and_adjust_mute(timestamp_device, g) ==
  << >>

_device_timestamp_sync_drift_check_and_adjust(timestamp_device, g) ==
  IF ~ _device_timestamp_sync_drift_check(Now, timestamp_device)
  THEN << Pub("ntp", "NTP_SYNC", g, NoCode,
              << to_timestamp_epoch_ms(Now), TimezoneOffsetHours >>) >>
  ELSE << >>

_device_food_plans_sync(plans, g) ==
  << Pub("service", "FEEDING_PLAN_SERVICE", g, NoCode,
         [i \in 1..Len(plans) |-> FeedingPlanOut(plans[i], Now)]) >>

\* the statement  self._error_report(message)
_error_report(message) == << Cb("error", << message >>) >>

\* BringOnline declaring the device online before the state sync is sent
BringOnline_OnlineFirst(heartbeat_in, g) ==
  << SetOnline(TRUE),
     Cb("went_online", << >>),
     Pub("config", "GET_CONFIG", g[1], NoCode, << >>),
     Pub("service", "ATTR_GET_SERVICE", g[2], NoCode, << >>) >>
  \o _device_food_plans_sync(food_plans, g[3])
  \o << Cb("device_info", << >>),
        Cb("device_wifi_info", << >>) >>

\* BringOnline asking for the attributes before the config
BringOnline_AttrFirst(heartbeat_in, g) ==
  << Pub("service", "ATTR_GET_SERVICE", g[2], NoCode, << >>),
     Pub("config", "GET_CONFIG", g[1], NoCode, << >>) >>
  \o _device_food_plans_sync(food_plans, g[3])
  \o << SetOnline(TRUE),
        Cb("went_online", << >>),
        Cb("device_info", << >>),
        Cb("device_wifi_info", << >>) >>

\* _heartbeat_cb, the branch taken when is_online is False, up to the
\* upward notifications
BringOnline(heartbeat_in, g) ==
  << Pub("config", "GET_CONFIG", g[1], NoCode, << >>),
     Pub("service", "ATTR_GET_SERVICE", g[2], NoCode, << >>) >>
  \o _device_food_plans_sync(food_plans, g[3])
  \o << SetOnline(TRUE),
        Cb("went_online", << >>),
        Cb("device_info", << >>),
        Cb("device_wifi_info", << >>) >>

\* _heartbeat_cb whose steady-state branch publishes nothing
_heartbeat_cb_no_refresh(heartbeat_in, g) ==
  LET restarted ==
        IF heartbeat_in.count < last_heartbeat_count
        THEN << Cb("went_offline", << >>) >> ELSE << >>
      drift_ok == _device_timestamp_sync_drift_check(Now, heartbeat_in.timestamp)
  IN  IF is_online = FALSE
      THEN IF drift_ok
           THEN [Ret(restarted \o BringOnline(heartbeat_in, g)
                       \o << Cb("ntp_sync_status", << TRUE >>) >>, "ok", TRUE)
                   EXCEPT !.count = heartbeat_in.count]
           ELSE [Ret(restarted \o BringOnline(heartbeat_in, g), "raised", FALSE)
                   EXCEPT !.count = heartbeat_in.count]
      ELSE [Ret(restarted, "ok", TRUE) EXCEPT !.count = heartbeat_in.count]

\* The restart check compares is_online with False and assigns nothing; the
\* drift branch of the offline path formats the undefined name ntp_sync_in
\* and raises before the status callback and before the watchdog reset.
_heartbeat_cb(heartbeat_in, g) ==
  LET restarted ==
        IF heartbeat_in.count < last_heartbeat_count
        THEN << Cb("went_offline", << >>) >> ELSE << >>
      drift_ok == _device_timestamp_sync_drift_check(Now, heartbeat_in.timestamp)
  IN  IF is_online = FALSE
      THEN IF drift_ok
           THEN [Ret(restarted \o BringOnline(heartbeat_in, g)
                       \o << Cb("ntp_sync_status", << TRUE >>) >>, "ok", TRUE)
                   EXCEPT !.count = heartbeat_in.count]
           ELSE [Ret(restarted \o BringOnline(heartbeat_in, g), "raised", FALSE)
                   EXCEPT !.count = heartbeat_in.count]
      ELSE [Ret(restarted
                  \o << Pub("service", "ATTR_GET_SERVICE", g[1], NoCode, << >>) >>,
                "ok", TRUE)
              EXCEPT !.count = heartbeat_in.count]

\* _ntp_cb that also forces a synchronisation when the clock is off
_ntp_cb_with_sync(ntp_in, g) ==
  Ret(<< Pub("ntp", "NTP", None, OK,
             << ~ _device_timestamp_sync_drift_check(Now, ntp_in.timestamp),
                to_timestamp_epoch_ms(Now), TimezoneOffsetHours >>),
         Cb("ntp_sync_status", << TRUE >>) >>
      \o _device_timestamp_sync_drift_check_and_adjust(ntp_in.timestamp, g[1]),
      "ok", FALSE)

_ntp_cb(ntp_in, g) ==
  Ret(<< Pub("ntp", "NTP", None, OK,
             << ~ _device_timestamp_sync_drift_check(Now, ntp_in.timestamp),
                to_timestamp_epoch_ms(Now), TimezoneOffsetHours >>),
         Cb("ntp_sync_status", << TRUE >>) >>, "ok", FALSE)

\* _ntp_sync_cb that sends NTP_SYNC again when the device is still off
_ntp_sync_cb_resend(ntp_sync_in, g) ==
  Ret(<< Cb("ntp_sync_status",
            << _device_timestamp_sync_drift_check(Now, ntp_sync_in.timestamp) >>) >>
      \o _device_timestamp_sync_drift_check_and_adjust(
           ntp_sync_in.timestamp, g[1]),
      "ok", FALSE)

_ntp_sync_cb(ntp_sync_in, g) ==
  Ret(<< Cb("ntp_sync_status",
            << _device_timestamp_sync_drift_check(Now, ntp_sync_in.timestamp) >>) >>,
      "ok", FALSE)

\* _device_start_event_cb that also declares the device online
_device_start_event_cb_online(device_start_event, g) ==
  IF device_start_event.success = TRUE
  THEN Ret(<< Cb("device_info", << >>),
              Cb("device_wifi_info", << >>),
              Pub("event", "DEVICE_START_EVENT", device_start_event.msgId, OK,
                  << >>),
              SetOnline(TRUE),
              Cb("went_online", << >>) >>
           \o _device_timestamp_sync_drift_check_and_adjust(
                device_start_event.timestamp, g[1]),
           "ok", FALSE)
  ELSE Ret(<< >>, "raised", FALSE)

\* the failure branch calls the undefined global _error_report and raises
_device_start_event_cb(device_start_event, g) ==
  IF device_start_event.success = TRUE
  THEN Ret(<< Cb("device_info", << >>),
              Cb("device_wifi_info", << >>),
              Pub("event", "DEVICE_START_EVENT", device_start_event.msgId, OK,
                  << >>) >>
           \o _device_timestamp_sync_drift_check_and_adjust(
                device_start_event.timestamp, g[1]),
           "ok", FALSE)
  ELSE Ret(<< >>, "raised", FALSE)

\* In the acknowledgement handlers the non-OK branch calls the undefined
\* global _error_report and raises.
_device_reboot_cb(device_reboot_in, g) ==
  IF device_reboot_in.code # OK
  THEN Ret(<< >>, "raised", FALSE)
  ELSE Ret(<< SetOnline(FALSE), Cb("went_offline", << >>) >>, "ok", FALSE)

\* _restore_cb that goes offline whatever the code
_restore_cb_ignores_code(restore_in, g) ==
  Ret(<< SetOnline(FALSE), Cb("went_offline", << >>) >>, "ok", FALSE)

_restore_cb(restore_in, g) ==
  IF restore_in.code # OK
  THEN Ret(<< >>, "raised", FALSE)
  ELSE Ret(<< SetOnline(FALSE), Cb("went_offline", << >>) >>, "ok", FALSE)

\* _wifi_reconnect_service_cb that reports offline but keeps the flag
_wifi_reconnect_service_cb_keeps_flag(wifi_reconnect_service_in, g) ==
  IF wifi_reconnect_service_in.code # OK
  THEN Ret(<< >>, "raised", FALSE)
  ELSE Ret(<< Cb("went_offline", << >>) >>, "ok", FALSE)

_wifi_reconnect_service_cb(wifi_reconnect_service_in, g) ==
  IF wifi_reconnect_service_in.code # OK
  THEN Ret(<< >>, "raised", FALSE)
  ELSE Ret(<< SetOnline(FALSE), Cb("went_offline", << >>) >>, "ok", FALSE)

_initialize_sd_card_service_cb(initialize_sd_card_service_in, g) ==
  IF initialize_sd_card_service_in.code # OK
  THEN Ret(<< >>, "raised", FALSE)
  ELSE Ret(_device_timestamp_sync_drift_check_and_adjust(
             initialize_sd_card_service_in.timestamp, g[1]), "ok", FALSE)

_attr_set_service_cb(attr_set_service_in, g) ==
  IF attr_set_service_in.code # OK
  THEN Ret(<< >>, "raised", FALSE)
  ELSE Ret(_device_timestamp_sync_drift_check_and_adjust(
             attr_set_service_in.timestamp, g[1]), "ok", FALSE)

_manual_feeding_service_cb(manual_feeding_service_in, g) ==
  IF manual_feeding_service_in.code # OK
  THEN Ret(<< >>, "raised", FALSE)
  ELSE Ret(_device_timestamp_sync_drift_check_and_adjust(
             manual_feeding_service_in.timestamp, g[1]), "ok", FALSE)

_feeding_plan_service_cb(feeding_plan_service_in, g) ==
  IF feeding_plan_service_in.code # OK
  THEN Ret(<< >>, "raised", FALSE)
  ELSE Ret(_device_timestamp_sync_drift_check_and_adjust(
             feeding_plan_service_in.timestamp, g[1]), "ok", FALSE)

_get_config_cb(get_config_in, g) ==
  Ret(<< Cb("device_info", << >>), Cb("device_wifi_info", << >>) >>
      \o _device_timestamp_sync_drift_check_and_adjust(get_config_in.timestamp, g[1]),
      "ok", FALSE)

\* _get_feeding_plan_event_cb that answers with an empty plan list
_get_feeding_plan_event_cb_no_plans(get_feeding_plan_event_in, g) ==
  Ret(<< Pub("service", "GET_FEEDING_PLAN_EVENT",
             get_feeding_plan_event_in.msgId, OK, << >>) >>
      \o _device_timestamp_sync_drift_check_and_adjust(
           get_feeding_plan_event_in.timestamp, g[1]),
      "ok", FALSE)

_get_feeding_plan_event_cb(get_feeding_plan_event_in, g) ==
  Ret(<< Pub("service", "GET_FEEDING_PLAN_EVENT",
             get_feeding_plan_event_in.msgId, OK,
             [i \in 1..Len(food_plans) |-> FeedingPlanOut(food_plans[i], Now)]) >>
      \o _device_timestamp_sync_drift_check_and_adjust(
           get_feeding_plan_event_in.timestamp, g[1]),
      "ok", FALSE)

\* _grain_output_event_cb without the comparison of the two quantities
_grain_output_event_cb_no_mismatch(grain_output_event_in, g) ==
  LET in == grain_output_event_in
      step ==
        CASE in.exec_step = "GRAIN_START" ->
               << Cb("food_output_log_start", << in.type_, in.expected >>),
                  Cb("food_output_progress", << "RUNNING" >>) >>
          [] in.exec_step = "GRAIN_BLOCKING" ->
               << Cb("food_output_progress", << "BLOCKED" >>) >>
          [] in.exec_step = "GRAIN_END" ->
               << Cb("food_output_log_end", << in.type_, in.actual >>),
                  Cb("food_output_progress", << "IDLE" >>) >>
          [] OTHER -> << >>
  IN  Ret(step
          \o << Pub("service", "GRAIN_OUTPUT_EVENT", in.msgId, OK,
                    << in.exec_step >>) >>
          \o _device_timestamp_sync_drift_check_and_adjust(in.timestamp, g[1]),
          "ok", FALSE)

_grain_output_event_cb(grain_output_event_in, g) ==
  LET in == grain_output_event_in
      step ==
        CASE in.exec_step = "GRAIN_START" ->
               << Cb("food_output_log_start", << in.type_, in.expected >>),
                  Cb("food_output_progress", << "RUNNING" >>) >>
          [] in.exec_step = "GRAIN_BLOCKING" ->
               << Cb("food_output_progress", << "BLOCKED" >>) >>
          [] in.exec_step = "GRAIN_END" ->
               << Cb("food_output_log_end", << in.type_, in.actual >>) >>
               \o (IF in.expected # in.actual
                   THEN _error_report("Food output actual != expected")
                   ELSE << >>)
               \o << Cb("food_output_progress", << "IDLE" >>) >>
          [] OTHER -> << >>
  IN  Ret(step
          \o << Pub("service", "GRAIN_OUTPUT_EVENT", in.msgId, OK,
                    << in.exec_step >>) >>
          \o _device_timestamp_sync_drift_check_and_adjust(in.timestamp, g[1]),
          "ok", FALSE)

\* the audio cache after an attribute message: a present field replaces the
\* cached value
AudioCache(attrs) ==
  << IF attrs.enableAudio # << >> THEN attrs.enableAudio[1]
                                  ELSE settings_audio_enabled,
     IF attrs.audioUrl # << >> THEN attrs.audioUrl[1]
                               ELSE settings_audio_file_url >>

_attr_get_service_cb(attr_get_service_in, g) ==
  [Ret(<< Cb("settings_audio", << attr_get_service_in.attrs.enableAudio,
                                  attr_get_service_in.attrs.audioUrl >>),
          Cb("settings_camera", << >>),
          Cb("settings_recording", << >>),
          Cb("settings_motion_detection", << >>),
          Cb("settings_sound_detection", << >>),
          Cb("settings_cloud_video_recording", << >>),
          Cb("settings_sound", << >>),
          Cb("settings_button_lights", << >>),
          Cb("state_power", << >>),
          Cb("state_food", << >>),
          Cb("device_wifi_info", << >>),
          Cb("device_sd_card_info", << >>),
          Cb("settings_feeding_video", << >>),
          Cb("settings_buttons_auto_lock", << >>) >>
       \o _device_timestamp_sync_drift_check_and_adjust(
            attr_get_service_in.timestamp, g[1]),
       "ok", FALSE)
     EXCEPT !.audio = AudioCache(attr_get_service_in.attrs)]

\* variant: the confirmation goes out through the service helper
_attr_push_event_cb_on_service(attr_push_event_in, g) ==
  [Ret(<< Cb("settings_audio", << attr_push_event_in.attrs.enableAudio,
                                  attr_push_event_in.attrs.audioUrl >>),
          Cb("settings_camera", << >>),
          Cb("settings_recording", << >>),
          Cb("settings_motion_detection", << >>),
          Cb("settings_sound_detection", << >>),
          Cb("settings_cloud_video_recording", << >>),
          Cb("settings_sound", << >>),
          Cb("settings_button_lights", << >>),
          Cb("state_power", << >>),
          Cb("state_food", << >>),
          Cb("device_sd_card_info", << >>),
          Cb("settings_feeding_video", << >>),
          Cb("settings_buttons_auto_lock", << >>),
          Pub("service", "ATTR_PUSH_EVENT", attr_push_event_in.msgId, OK, << >>) >>
       \o _device_timestamp_sync_drift_check_and_adjust(
            attr_push_event_in.timestamp, g[1]),
       "ok", FALSE)
     EXCEPT !.audio = AudioCache(attr_push_event_in.attrs)]

_attr_push_event_cb(attr_push_event_in, g) ==
  [Ret(<< Cb("settings_audio", << attr_push_event_in.attrs.enableAudio,
                                  attr_push_event_in.attrs.audioUrl >>),
          Cb("settings_camera", << >>),
          Cb("settings_recording", << >>),
          Cb("settings_motion_detection", << >>),
          Cb("settings_sound_detection", << >>),
          Cb("settings_cloud_video_recording", << >>),
          Cb("settings_sound", << >>),
          Cb("settings_button_lights", << >>),
          Cb("state_power", << >>),
          Cb("state_food", << >>),
          Cb("device_sd_card_info", << >>),
          Cb("settings_feeding_video", << >>),
          Cb("settings_buttons_auto_lock", << >>),
          Pub("event", "ATTR_PUSH_EVENT", attr_push_event_in.msgId, OK, << >>) >>
       \o _device_timestamp_sync_drift_check_and_adjust(
            attr_push_event_in.timestamp, g[1]),
       "ok", FALSE)
     EXCEPT !.audio = AudioCache(attr_push_event_in.attrs)]

\* the handler Backend.initialize registered for a command
Handler(env, g) ==
  CASE env.cmd = "HEARTBEAT" -> _heartbeat_cb(env, g)
    [] env.cmd = "NTP" -> _ntp_cb(env, g)
    [] env.cmd = "NTP_SYNC" -> _ntp_sync_cb(env, g)
    [] env.cmd = "DEVICE_START_EVENT" -> _device_start_event_cb(env, g)
    [] env.cmd = "DEVICE_REBOOT" -> _device_reboot_cb(env, g)
    [] env.cmd = "RESTORE" -> _restore_cb(env, g)
    [] env.cmd = "WIFI_RECONNECT_SERVICE" -> _wifi_reconnect_service_cb(env, g)
    [] env.cmd = "INITIALIZE_SD_CARD_SERVICE" ->
         _initialize_sd_card_service_cb(env, g)
    [] env.cmd = "ATTR_SET_SERVICE" -> _attr_set_service_cb(env, g)
    [] env.cmd = "MANUAL_FEEDING_SERVICE" -> _manual_feeding_service_cb(env, g)
    [] env.cmd = "FEEDING_PLAN_SERVICE" -> _feeding_plan_service_cb(env, g)
    [] env.cmd = "GET_CONFIG" -> _get_config_cb(env, g)
    [] env.cmd = "GET_FEEDING_PLAN_EVENT" -> _get_feeding_plan_event_cb(env, g)
    [] env.cmd = "GRAIN_OUTPUT_EVENT" -> _grain_output_event_cb(env, g)
    [] env.cmd = "ATTR_GET_SERVICE" -> _attr_get_service_cb(env, g)
    [] env.cmd = "ATTR_PUSH_EVENT" -> _attr_push_event_cb(env, g)

\* _heartbeat_watchdog_trigger, the callback the Watchdog invokes
_heartbeat_watchdog_trigger ==
  Ret(<< SetOnline(FALSE), Cb("went_offline", << >>) >>, "ok", FALSE)

(* ------------------------------ Watchdog ------------------------------ *)
\* Watchdog._cancel: ad.cancel_timer(handle, True) removes the timer only
\* while the scheduler still holds it; an expired timer whose callback was
\* already handed to the worker is out of its reach
_cancel(pending) == { t \in pending : t.id # handle }

\* the handle ad.run_in returns: a timer id not in use
NewHandle(pending) ==
  CHOOSE i \in 1..(MaxTimers + 1) :
    /\ i \notin { t.id : t \in pending } \cup dispatched
    /\ \A j \in 1..(i - 1) : j \in { t.id : t \in pending } \cup dispatched

\* Watchdog._schedule: one run_in timer over the whole period
_schedule(pending) ==
  pending \cup { [id |-> NewHandle(pending),
                  remaining |-> HEARTBEAT_WATCHDOG_PERIOD_SEC] }

\* Watchdog.reset: the scheduler's timers and the handle afterwards
reset ==
  [timers |-> _schedule(_cancel(timers)),
   handle |-> NewHandle(_cancel(timers))]

(* ------------------------------ Client -------------------------------- *)
\* _mqtt_recv_<topic>_cb whose else branch raises
Route_unknown_raises(topic, env) ==
  IF env.form = "not_json" THEN "json_raised"
  ELSE IF env.form = "no_cmd" THEN "key_raised"
  ELSE IF env.cmd \notin RecvCmds(topic) THEN "raised"
  ELSE IF env.cmd \in MissingCallbackAttr THEN "raised"
  ELSE IF env.cmd \notin Registered THEN "dropped"
  ELSE IF ~ Decodes(env) THEN "decode_raised"
  ELSE "handler"

\* how _mqtt_recv_<topic>_cb ends for an envelope, short of the handler:
\* json.loads raises on text that is no JSON, payload['cmd'] raises on an
\* object without cmd, the else branch reports a cmd the callback does not
\* compare against, a None callback drops the envelope
Route(topic, env) ==
  IF env.form = "not_json" THEN "json_raised"
  ELSE IF env.form = "no_cmd" THEN "key_raised"
  ELSE IF env.cmd \notin RecvCmds(topic) THEN "unknown_cmd"
  ELSE IF env.cmd \in MissingCallbackAttr THEN "raised"
  ELSE IF env.cmd \notin Registered THEN "dropped"
  ELSE IF ~ Decodes(env) THEN "decode_raised"
  ELSE "handler"

NoLast ==
  [op |-> "init", topic |-> "", env |-> NoEnv, result |-> "", handled |-> FALSE,
   was_online |-> FALSE, prev_count |-> 0, prev_handle |-> None,
   timer |-> None, plans |-> << >>, plan |-> NoPlan, prev_plans |-> << >>,
   payload |-> [text |-> ""]]

(* ------------------------------- Init --------------------------------- *)
\* Init without the heartbeat_watchdog.reset() of Backend.initialize
Init_Unarmed ==
  /\ is_online = FALSE
  /\ last_heartbeat_count = 0
  /\ food_plans \in PlanSets
  /\ settings_audio_enabled = FALSE
  /\ settings_audio_file_url = ""
  /\ handle = None
  /\ timers = { }
  /\ dispatched = { }
  /\ fires_since_reset = 0
  /\ silent = TRUE
  /\ log = << >>
  /\ last = NoLast

\* the state Backend.initialize leaves: offline, count 0, the stored plans,
\* the watchdog reset once
Init ==
  /\ is_online = FALSE
  /\ last_heartbeat_count = 0
  /\ food_plans \in PlanSets
  /\ settings_audio_enabled = FALSE
  /\ settings_audio_file_url = ""
  /\ handle = 1
  /\ timers = { [id |-> 1, remaining |-> HEARTBEAT_WATCHDOG_PERIOD_SEC] }
  /\ dispatched = { }
  /\ fires_since_reset = 0
  /\ silent = TRUE
  /\ log = << >>
  /\ last = NoLast

(* ------------------------------ actions ------------------------------- *)
\* an envelope arrives on <topic>/post and its receive callback runs to the end
Receive(topic, env, g) ==
  LET route == Route(topic, env)
      r == IF route = "handler" THEN Handler(env, g)
                                ELSE Ret(<< >>, route, FALSE)
  IN  /\ r.reset =>
           Cardinality(_cancel(timers)) + Cardinality(dispatched) < MaxTimers
      /\ is_online' = ApplySets(r.effects, is_online)
      /\ last_heartbeat_count' = r.count
      /\ settings_audio_enabled' = r.audio[1]
      /\ settings_audio_file_url' = r.audio[2]
      /\ handle' = IF r.reset THEN reset.handle ELSE handle
      /\ timers' = IF r.reset THEN reset.timers ELSE timers
      /\ fires_since_reset' = IF r.reset THEN 0 ELSE fires_since_reset
      /\ silent' = FALSE
      /\ log' = r.effects
      /\ last' = [op |-> "recv", topic |-> topic, env |-> env,
                  result |-> r.result, handled |-> (route = "handler"),
                  was_online |-> is_online, prev_count |-> last_heartbeat_count,
                  prev_handle |-> handle, timer |-> None, plans |-> << >>,
                  plan |-> NoPlan, prev_plans |-> food_plans,
                  payload |-> NoLast.payload]
      /\ UNCHANGED << food_plans, dispatched >>

\* envelopes of the commands in cmds, each on the post topics whose receive
\* callback knows the command; a handler draws one generated id per request
\* it publishes
DeliverFrom(cmds) ==
  \E env \in { e \in Envelopes : e.cmd \in cmds } :
    \E topic \in { t \in Topics : env.cmd \in RecvCmds(t) },
       g1 \in GenIds, g2 \in GenIds, g3 \in GenIds :
      Receive(topic, env, << g1, g2, g3 >>)

\* one envelope per command tag
OnePerCmd == { CHOOSE e \in Envelopes : e.cmd = c : c \in Commands \cup { "BOGUS" } }

\* an envelope arrives on a post topic whose receive callback does not know
\* its cmd; the callback reads no other field
DeliverForeign ==
  \E env \in OnePerCmd :
    \E topic \in { t \in Topics : env.cmd \notin RecvCmds(t) } :
      Receive(topic, env, << CHOOSE g \in GenIds : TRUE,
                             CHOOSE g \in GenIds : TRUE,
                             CHOOSE g \in GenIds : TRUE >>)

\* the commands that drive the session state machine
SessionCmds ==
  { "HEARTBEAT", "DEVICE_START_EVENT", "DEVICE_REBOOT", "RESTORE",
    "WIFI_RECONNECT_SERVICE" }

DeliverSession == DeliverFrom(SessionCmds)

\* every command the protocol knows
Deliver == DeliverFrom(Commands)

\* food_plans_set that pushes the plans without keeping them
food_plans_set_no_store(plans, g) ==
  /\ food_plans' = food_plans
  /\ log' = _device_food_plans_sync(plans, g)
  /\ last' = [NoLast EXCEPT !.op = "food_plans_set", !.result = "ok",
                            !.was_online = is_online,
                            !.prev_count = last_heartbeat_count,
                            !.prev_handle = handle, !.plans = plans]
  /\ UNCHANGED << is_online, last_heartbeat_count, settings_audio_enabled,
                  settings_audio_file_url, handle, timers, dispatched,
                  fires_since_reset, silent >>

\* Backend.food_plans_set: the user installs a plan set
food_plans_set(plans, g) ==
  /\ food_plans' = plans
  /\ log' = _device_food_plans_sync(plans, g)
  /\ last' = [NoLast EXCEPT !.op = "food_plans_set", !.result = "ok",
                            !.was_online = is_online,
                            !.prev_count = last_heartbeat_count,
                            !.prev_handle = handle, !.plans = plans]
  /\ UNCHANGED << is_online, last_heartbeat_count, settings_audio_enabled,
                  settings_audio_file_url, handle, timers, dispatched,
                  fires_since_reset, silent >>

UserFoodPlansSet ==
  \E plans \in PlanSets, g \in GenIds : food_plans_set(plans, g)

\* TickSec seconds pass; due timers are handed over before time moves on
Tick ==
  /\ timers # { }
  /\ \A t \in timers : t.remaining > 0
  /\ timers' = { [t EXCEPT !.remaining =
                    IF t.remaining > TickSec THEN t.remaining - TickSec ELSE 0] :
                 t \in timers }
  /\ log' = << >>
  /\ last' = [NoLast EXCEPT !.op = "tick"]
  /\ UNCHANGED << is_online, last_heartbeat_count, food_plans,
                  settings_audio_enabled, settings_audio_file_url, handle,
                  dispatched, fires_since_reset, silent >>

\* the scheduler finds a run_in timer due, forgets it and hands its callback
\* to the app's worker, where it waits behind a callback that is running
Expire ==
  \E t \in timers :
    /\ t.remaining = 0
    /\ timers' = timers \ { t }
    /\ dispatched' = dispatched \cup { t.id }
    /\ log' = << >>
    /\ last' = [NoLast EXCEPT !.op = "expire", !.timer = t.id]
    /\ UNCHANGED << is_online, last_heartbeat_count, food_plans,
                    settings_audio_enabled, settings_audio_file_url, handle,
                    fires_since_reset, silent >>

\* Watchdog._watchdog_run of a handed-over timer: forget the handle, invoke
\* the trigger callback
_watchdog_run ==
  \E id \in dispatched :
    LET r == _heartbeat_watchdog_trigger
    IN  /\ dispatched' = dispatched \ { id }
        /\ handle' = None
        /\ is_online' = ApplySets(r.effects, is_online)
        /\ fires_since_reset' =
             IF fires_since_reset < 2 THEN fires_since_reset + 1 ELSE 2
        /\ log' = r.effects
        /\ last' = [NoLast EXCEPT !.op = "watchdog", !.result = r.result,
                                  !.handled = TRUE, !.was_online = is_online,
                                  !.prev_count = last_heartbeat_count,
                                  !.prev_handle = handle, !.timer = id]
        /\ UNCHANGED << last_heartbeat_count, food_plans,
                        settings_audio_enabled, settings_audio_file_url, timers,
                        silent >>

Next ==
  \/ DeliverSession
  \/ UserFoodPlansSet
  \/ Tick
  \/ Expire
  \/ _watchdog_run

Spec == Init /\ [][Next]_vars

\* the device-initiated two-way commands only
DeliverReplies == DeliverFrom(DeviceTwoWay)

NextReplies ==
  \/ DeliverReplies
  \/ UserFoodPlansSet

SpecReplies == Init /\ [][NextReplies]_vars

(* ---------------------------- properties ------------------------------ *)
\* positions of the envelopes of a command among the last effects
Pubs(cmd) == { i \in DOMAIN log : log[i].kind = "pub" /\ log[i].name = cmd }

\* position of the first such envelope, 0 when there is none
PubIndex(cmd) ==
  IF Pubs(cmd) = { } THEN 0
  ELSE CHOOSE i \in Pubs(cmd) : \A j \in Pubs(cmd) : i <= j

\* the last operation was the handler of cmd, run on a decoded envelope
Handled(cmd) == last.op = "recv" /\ last.handled /\ last.env.cmd = cmd

\* C1: every envelope of a device-initiated two-way command that carries a
\* msgId is answered, before its receive callback ends, by exactly one
\* published envelope with the same cmd and the same msgId.
C1_TwoWayAnsweredOnce ==
  ( last.op = "recv" /\ last.env.cmd \in DeviceTwoWay
    /\ last.env.msgId \in MsgIds )
  => Cardinality({ i \in Pubs(last.env.cmd) : log[i].msgId = last.env.msgId }) = 1

\* C2: a DEVICE_START_EVENT with success false is answered by exactly one
\* DEVICE_START_EVENT reply with the inbound msgId, and the failure reaches
\* the error callback.
C2_FailedStartAnsweredAndReported ==
  ( last.op = "recv" /\ last.env.cmd = "DEVICE_START_EVENT"
    /\ last.env.success = FALSE )
  => /\ Cardinality({ i \in Pubs("DEVICE_START_EVENT") :
                        log[i].msgId = last.env.msgId }) = 1
     /\ \E i \in DOMAIN log : log[i].kind = "cb" /\ log[i].name = "error"

\* C3: a heartbeat whose count is lower than the previous heartbeat's count
\* makes the handler set is_online to false and invoke the offline callback.
C3_CountDecreaseForcesOffline ==
  ( Handled("HEARTBEAT") /\ last.env.count < last.prev_count )
  => /\ \E i \in DOMAIN log : log[i] = SetOnline(FALSE)
     /\ \E i \in DOMAIN log : log[i] = Cb("went_offline", << >>)

\* C4: a heartbeat processed while OFFLINE publishes an ATTR_GET_SERVICE
\* request, a GET_CONFIG request and a FEEDING_PLAN_SERVICE push with one
\* entry per plan of the in-memory set, and only after these three sets
\* is_online to true and then invokes the went-online callback.
C4_OfflineHeartbeatSyncsThenOnline ==
  ( Handled("HEARTBEAT") /\ ~ last.was_online )
  => /\ Cardinality(Pubs("ATTR_GET_SERVICE")) = 1
     /\ Cardinality(Pubs("GET_CONFIG")) = 1
     /\ Cardinality(Pubs("FEEDING_PLAN_SERVICE")) = 1
     /\ LET plans == log[PubIndex("FEEDING_PLAN_SERVICE")].arg
        IN  /\ Len(plans) = Len(food_plans)
            /\ \A k \in 1..Len(plans) : plans[k].planId = food_plans[k].id_
     /\ \E i, j \in DOMAIN log :
          /\ log[i] = SetOnline(TRUE)
          /\ log[j] = Cb("went_online", << >>)
          /\ i < j
          /\ \A k \in DOMAIN log : log[k].kind = "pub" => k < i
     /\ \A i \in DOMAIN log :
          (log[i] = SetOnline(TRUE) \/ log[i] = Cb("went_online", << >>))
          => \A k \in DOMAIN log : log[k].kind = "pub" => k < i
     /\ is_online = TRUE

C4_Witness ==
  /\ Handled("HEARTBEAT") /\ ~ last.was_online
  /\ food_plans # << >>
  /\ is_online

\* C5 as the specification states it: on the OFFLINE->ONLINE transition ATTR_GET_SERVICE is
\* published first, GET_CONFIG second, FEEDING_PLAN_SERVICE third.
C5_AttrConfigPlanOrder ==
  ( Handled("HEARTBEAT") /\ ~ last.was_online )
  => /\ 0 < PubIndex("ATTR_GET_SERVICE")
     /\ PubIndex("ATTR_GET_SERVICE") < PubIndex("GET_CONFIG")
     /\ PubIndex("GET_CONFIG") < PubIndex("FEEDING_PLAN_SERVICE")

\* C5 amended: on the OFFLINE->ONLINE transition GET_CONFIG is published
\* first, ATTR_GET_SERVICE second, FEEDING_PLAN_SERVICE third.
C5_ConfigAttrPlanOrder ==
  ( Handled("HEARTBEAT") /\ ~ last.was_online )
  => /\ 0 < PubIndex("GET_CONFIG")
     /\ PubIndex("GET_CONFIG") < PubIndex("ATTR_GET_SERVICE")
     /\ PubIndex("ATTR_GET_SERVICE") < PubIndex("FEEDING_PLAN_SERVICE")

C5_Witness ==
  /\ Handled("HEARTBEAT") /\ ~ last.was_online
  /\ last.result = "ok"
  /\ Len(log) >= 3

\* C6: a watchdog trigger and an OK acknowledgement of DEVICE_REBOOT, RESTORE
\* or WIFI_RECONNECT_SERVICE each leave is_online false and invoke the
\* offline callback.
C6_TriggerAndOkAcksGoOffline ==
  ( \/ last.op = "watchdog"
    \/ \E c \in OfflineAckCmds : Handled(c) /\ last.env.code = OK )
  => /\ is_online = FALSE
     /\ \E i \in DOMAIN log : log[i] = Cb("went_offline", << >>)

C6_Witness ==
  /\ Handled("WIFI_RECONNECT_SERVICE") /\ last.env.code = OK
  /\ last.was_online
  /\ ~ is_online

\* C7 as the specification states it: a DEVICE_START_EVENT processed while OFFLINE leaves the
\* Session ONLINE.
C7_DeviceStartBringsOnline ==
  ( Handled("DEVICE_START_EVENT") /\ ~ last.was_online ) => is_online

\* C7 amended: a DEVICE_START_EVENT never changes is_online; processed while
\* OFFLINE it leaves the Session OFFLINE.
C7_DeviceStartKeepsSession ==
  Handled("DEVICE_START_EVENT")
  => /\ is_online = last.was_online
     /\ \A i \in DOMAIN log : log[i].kind # "set"

C7_Witness ==
  /\ Handled("DEVICE_START_EVENT") /\ last.env.success
  /\ ~ last.was_online
  /\ ~ is_online
  /\ Pubs("DEVICE_START_EVENT") # { }

\* C8: after a reset() the watchdog fires at most once before reset() is
\* called again, and the fire of the timer that reset() armed takes the
\* Session OFFLINE and leaves the watchdog without a handle.
C8_FiresOncePerReset ==
  /\ fires_since_reset <= 1
  /\ ( last.op = "watchdog" /\ last.prev_handle = last.timer )
     => ~ is_online /\ handle = None

\* C9: at every moment at most one watchdog timer is scheduled and unfired.
C9_AtMostOnePendingTimer == Cardinality(timers) <= 1

\* C10: a fire that runs after a reset() has already scheduled a new timer
\* does nothing: no trigger callback, is_online untouched, the new timer's
\* handle kept.
C10_LateFireIsNoOp ==
  ( last.op = "watchdog" /\ last.prev_handle \notin { None, last.timer } )
  => /\ log = << >>
     /\ is_online = last.was_online
     /\ handle = last.prev_handle

\* C11: Backend.initialize leaves the heartbeat watchdog armed with exactly
\* one pending timer of the full period, and as long as no envelope arrives
\* that timer stays armed until it fires; its fire runs the registered
\* trigger, which reports the device offline.
C11_ArmedAtStart ==
  /\ last.op = "init"
     => /\ handle # None
        /\ timers = { [id |-> handle,
                       remaining |-> HEARTBEAT_WATCHDOG_PERIOD_SEC] }
        /\ dispatched = { }
  /\ ( silent /\ fires_since_reset = 0 )
     => Cardinality(timers) + Cardinality(dispatched) = 1
  /\ ( silent /\ last.op = "watchdog" )
     => /\ fires_since_reset = 1
        /\ is_online = FALSE
        /\ \E i \in DOMAIN log : log[i] = Cb("went_offline", << >>)

C11_Witness ==
  /\ silent
  /\ last.op = "watchdog"
  /\ fires_since_reset = 1
  /\ timers = { }

\* C12: every processed heartbeat ends normally with the watchdog reset: a
\* fresh timer with the full period is pending under the watchdog's handle,
\* in the OFFLINE->ONLINE path and in the steady-state path, whatever the
\* drift check says.
C12_HeartbeatResetsWatchdog ==
  Handled("HEARTBEAT")
  => /\ last.result = "ok"
     /\ handle # None
     /\ [id |-> handle, remaining |-> HEARTBEAT_WATCHDOG_PERIOD_SEC] \in timers
     /\ fires_since_reset = 0

DeliverRegistered == DeliverFrom(Registered)

NextAll ==
  \/ DeliverRegistered
  \/ UserFoodPlansSet

SpecAll == Init /\ [][NextAll]_vars

\* the envelope processed last carries a timestamp 10 s or more away from
\* server time
Drifted == Abs(Now - last.env.timestamp) >= 10 * 1000

\* commands whose handler calls _device_timestamp_sync_drift_check_and_adjust
AdjustCmds ==
  { "DEVICE_START_EVENT", "ATTR_GET_SERVICE", "ATTR_PUSH_EVENT", "GET_CONFIG",
    "GET_FEEDING_PLAN_EVENT", "GRAIN_OUTPUT_EVENT", "INITIALIZE_SD_CARD_SERVICE",
    "ATTR_SET_SERVICE", "MANUAL_FEEDING_SERVICE", "FEEDING_PLAN_SERVICE" }

C15_OneShotResync ==
  /\ Cardinality(Pubs("NTP_SYNC")) <= 1
  /\ Pubs("NTP_SYNC") # { } => ( last.op = "recv" /\ last.handled /\ Drifted )
  /\ \A i \in Pubs("NTP_SYNC") :
       /\ log[i].topic = "ntp"
       /\ log[i].msgId \in GenIds
       /\ log[i].arg = << (Now \div 1000) * 1000, TimezoneOffsetHours >>
       /\ Now - log[i].arg[1] \in 0..999
  /\ Handled("NTP_SYNC")
     => /\ log = << Cb("ntp_sync_status", << ~ Drifted >>) >>
        /\ is_online = last.was_online
        /\ last_heartbeat_count = last.prev_count

C15_Witness ==
  /\ Handled("NTP_SYNC")
  /\ Drifted
  /\ log = << Cb("ntp_sync_status", << FALSE >>) >>

(* ----------------------------- drift check ---------------------------- *)
\* timestamps in milliseconds: whole seconds, and two values 1 ms either
\* side of 10 s
DriftTimes == { s * 1000 : s \in 0..MaxDriftSec } \cup { 9999, 10001 }

\* a call of Backend._device_timestamp_sync_drift_check; the arguments and
\* the returned value are recorded as an effect
DriftCheck ==
  \E a \in DriftTimes, b \in DriftTimes :
    /\ log' = << Cb("drift_check",
                    << a, b, _device_timestamp_sync_drift_check(a, b) >>) >>
    /\ last' = [NoLast EXCEPT !.op = "drift_check"]
    /\ UNCHANGED << is_online, last_heartbeat_count, food_plans,
                    settings_audio_enabled, settings_audio_file_url, handle,
                    timers, dispatched, fires_since_reset, silent >>

NextDrift == DriftCheck

SpecDrift == Init /\ [][NextDrift]_vars

\* C16: the drift check is true iff the two timestamps are strictly less
\* than 10 s apart: true for equal timestamps and 9 s, false for 10 s and
\* 11 s, and the same with the arguments swapped.
C16_DriftCheckStrictThreshold ==
  last.op = "drift_check"
  => LET a == log[1].arg[1]
         b == log[1].arg[2]
         r == log[1].arg[3]
     IN  /\ r = ( a - b < 10 * 1000 /\ b - a < 10 * 1000 )
         /\ a = b => r
         /\ ( a - b = 9000 \/ b - a = 9000 ) => r
         /\ ( a - b \in { 10000, 11000 } \/ b - a \in { 10000, 11000 } ) => ~ r
         /\ r = _device_timestamp_sync_drift_check(b, a)

C16_Witness ==
  /\ last.op = "drift_check"
  /\ log[1].arg[1] - log[1].arg[2] = 10000
  /\ log[1].arg[3] = FALSE

\* the last operation handled an acknowledgement with a non-OK code
NonOkAck ==
  /\ \E c \in OfflineAckCmds \cup (AckCmds \ { "NTP_SYNC" }) : Handled(c)
  /\ last.env.code # OK

\* C17: an acknowledgement (DEVICE_REBOOT, RESTORE, WIFI_RECONNECT_SERVICE,
\* INITIALIZE_SD_CARD_SERVICE, ATTR_SET_SERVICE, MANUAL_FEEDING_SERVICE,
\* FEEDING_PLAN_SERVICE) with a non-OK code invokes the error callback
\* exactly once and its handler returns normally.
C17_NonOkAckReported ==
  NonOkAck
  => /\ last.result = "ok"
     /\ Cardinality({ i \in DOMAIN log :
                        log[i].kind = "cb" /\ log[i].name = "error" }) = 1

\* C18: an acknowledgement with a non-OK code leaves is_online and
\* last_heartbeat_count as they were, invokes no offline callback and
\* publishes nothing (no NTP_SYNC, no retry of the request).
C18_NonOkAckAbandoned ==
  NonOkAck
  => /\ is_online = last.was_online
     /\ last_heartbeat_count = last.prev_count
     /\ \A i \in DOMAIN log :
          /\ log[i].kind # "pub"
          /\ log[i].kind # "set"
          /\ log[i] # Cb("went_offline", << >>)

C18_Witness ==
  /\ Handled("RESTORE")
  /\ last.env.code = ERROR_1
  /\ last.was_online
  /\ is_online

\* the upward callbacks of the last operation, in program order
Callbacks == SelectSeq(log, LAMBDA e : e.kind = "cb")

\* the callbacks of the last operation that carry the name n
CallbacksNamed(n) == SelectSeq(Callbacks, LAMBDA e : e.name = n)

\* C19: a GRAIN_OUTPUT_EVENT of step GRAIN_START emits the start record
\* (trigger type, expected quantity) and then progress RUNNING; of step
\* GRAIN_BLOCKING emits progress BLOCKED and no end record; of step GRAIN_END
\* emits the end record (trigger type, actual quantity) and progress IDLE
\* last, with the error callback in between exactly when the actual
\* quantity differs from the expected one. GRAIN_END with expected 5 and
\* actual 4 yields the mismatch error and then IDLE.
C19_GrainStepsReported ==
  Handled("GRAIN_OUTPUT_EVENT")
  => LET in == last.env
         progress == CallbacksNamed("food_output_progress")
         errors == CallbacksNamed("error")
         starts == CallbacksNamed("food_output_log_start")
         ends == CallbacksNamed("food_output_log_end")
     IN  /\ last.result = "ok"
         /\ Len(progress) = 1
         /\ Callbacks[Len(Callbacks)] = progress[1]
         /\ in.exec_step = "GRAIN_START"
              => /\ starts = << Cb("food_output_log_start",
                                   << in.type_, in.expected >>) >>
                 /\ Callbacks[1] = starts[1]
                 /\ progress[1].arg = << "RUNNING" >>
                 /\ ends = << >>
                 /\ errors = << >>
         /\ in.exec_step = "GRAIN_BLOCKING"
              => /\ progress[1].arg = << "BLOCKED" >>
                 /\ starts = << >>
                 /\ ends = << >>
                 /\ errors = << >>
         /\ in.exec_step = "GRAIN_END"
              => /\ ends = << Cb("food_output_log_end",
                                 << in.type_, in.actual >>) >>
                 /\ Callbacks[1] = ends[1]
                 /\ progress[1].arg = << "IDLE" >>
                 /\ starts = << >>
                 /\ Len(errors) = (IF in.actual # in.expected THEN 1 ELSE 0)

C19_Witness ==
  /\ Handled("GRAIN_OUTPUT_EVENT")
  /\ last.env.exec_step = "GRAIN_END"
  /\ last.env.expected = 5
  /\ last.env.actual = 4
  /\ Len(Callbacks) = 3
  /\ Callbacks[2].name = "error"
  /\ Callbacks[3] = Cb("food_output_progress", << "IDLE" >>)

\* C20: food_plans_set(plans) replaces the plan set in memory by plans and
\* publishes exactly one FEEDING_PLAN_SERVICE envelope and nothing else; the
\* envelope has one entry per plan, in the plans' order, with the plan's
\* id, its execution time (as UTC HH:MM), its weekdays (padded with 0 to
\* seven), audio flag, audio count and grain quantity, and every entry has
\* the same sync time.
C20_PlansStoredAndPushedOnce ==
  last.op = "food_plans_set"
  => /\ food_plans = last.plans
     /\ Len(log) = 1
     /\ log[1].kind = "pub"
     /\ log[1].name = "FEEDING_PLAN_SERVICE"
     /\ log[1].topic = "service"
     /\ LET entries == log[1].arg
            plans == last.plans
        IN  /\ Len(entries) = Len(plans)
            /\ \A i \in 1..Len(plans) :
                 /\ entries[i].planId = plans[i].id_
                 /\ << (entries[i].executionTime[1] + TimezoneOffsetHours) % 24,
                       entries[i].executionTime[2] >> = plans[i].execution_time
                 /\ Len(entries[i].repeatDay) = 7
                 /\ { entries[i].repeatDay[k] : k \in 1..7 } \ { 0 }
                      = { plans[i].scheduled_days[k] :
                            k \in 1..Len(plans[i].scheduled_days) }
                 /\ entries[i].enableAudio = plans[i].enable_audio
                 /\ entries[i].audioTimes = plans[i].play_audio_times
                 /\ entries[i].grainNum = plans[i].grain_num
            /\ \A i, j \in 1..Len(entries) :
                 entries[i].syncTime = entries[j].syncTime

C20_Witness ==
  /\ last.op = "food_plans_set"
  /\ last.plans = << Plan1, Plan2 >>
  /\ food_plans = << Plan1, Plan2 >>
  /\ Len(log) = 1
  /\ Len(log[1].arg) = 2
  /\ log[1].arg[2].planId = 2

\* C21: no inbound device message changes the plan set in memory, and a
\* GET_FEEDING_PLAN_EVENT is answered by exactly one GET_FEEDING_PLAN_EVENT
\* envelope with the request's msgId, code OK and one entry per plan of the
\* set in memory, in its order and with its fields, each stamped with the
\* current time.
C21_PlanRequestServedFromMemory ==
  last.op = "recv"
  => /\ food_plans = last.prev_plans
     /\ Handled("GET_FEEDING_PLAN_EVENT")
        => /\ Cardinality(Pubs("GET_FEEDING_PLAN_EVENT")) = 1
           /\ \A i \in Pubs("GET_FEEDING_PLAN_EVENT") :
                /\ log[i].msgId = last.env.msgId
                /\ log[i].code = OK
                /\ Len(log[i].arg) = Len(last.prev_plans)
                /\ \A k \in 1..Len(last.prev_plans) :
                     LET entry == log[i].arg[k]
                         plan == last.prev_plans[k]
                     IN  /\ entry.planId = plan.id_
                         /\ << (entry.executionTime[1]
                                  + TimezoneOffsetHours) % 24,
                               entry.executionTime[2] >>
                              = plan.execution_time
                         /\ { entry.repeatDay[d] :
                                d \in 1..Len(entry.repeatDay) } \ { 0 }
                              = { plan.scheduled_days[d] :
                                    d \in 1..Len(plan.scheduled_days) }
                         /\ entry.enableAudio = plan.enable_audio
                         /\ entry.audioTimes = plan.play_audio_times
                         /\ entry.grainNum = plan.grain_num
                         /\ Now - entry.syncTime \in 0..999

C21_Witness ==
  /\ Handled("GET_FEEDING_PLAN_EVENT")
  /\ food_plans = << Plan1, Plan2 >>
  /\ \E i \in Pubs("GET_FEEDING_PLAN_EVENT") :
       /\ Len(log[i].arg) = 2
       /\ log[i].arg[1].planId = 1
       /\ log[i].msgId = last.env.msgId

(* ------------------------------ plan_set ------------------------------ *)
\* payloads the handler cannot use: text that is no JSON (held as a record
\* with the text), an object without grain_num, one with a day name Weekday
\* does not have, and one with an hour datetime.time refuses
BadPlanPayloads ==
  { [text |-> "{"],
    [id |-> 1, execution_time |-> [hour |-> 8, minute |-> 30],
     scheduled_days |-> << "MONDAY" >>, enable_audio |-> FALSE,
     play_audio_times |-> 0],
    [id |-> 1, execution_time |-> [hour |-> 8, minute |-> 30],
     scheduled_days |-> << "FUNDAY" >>, enable_audio |-> FALSE,
     play_audio_times |-> 0, grain_num |-> 5],
    [id |-> 2, execution_time |-> [hour |-> 24, minute |-> 0],
     scheduled_days |-> << "SUNDAY" >>, enable_audio |-> TRUE,
     play_audio_times |-> 2, grain_num |-> 3] }

\* json.loads raises on text that is no JSON
json_loads_raises(payload) == "text" \in DOMAIN payload

\* FoodPlan.from_dict raises: KeyError for a missing key or an unknown
\* Weekday name, ValueError from datetime.time for an hour or minute out of
\* range
FoodPlan_from_dict_raises(data) ==
  \/ ~ ( { "id", "execution_time", "scheduled_days", "enable_audio",
           "play_audio_times", "grain_num" } \subseteq DOMAIN data )
  \/ data.execution_time.hour \notin 0..23
  \/ data.execution_time.minute \notin 0..59
  \/ \E i \in 1..Len(data.scheduled_days) :
       \A v \in 1..7 : WeekdayNames[v] # data.scheduled_days[i]

\* the except branch of _mqtt_cmd_food_plans: two log lines, then return
PlanIgnored(payload) ==
  /\ log' = << >>
  /\ last' = [NoLast EXCEPT !.op = "plan_ignored", !.result = "ignored",
                            !.was_online = is_online,
                            !.prev_count = last_heartbeat_count,
                            !.prev_handle = handle, !.plans = food_plans,
                            !.payload = payload]
  /\ UNCHANGED << is_online, last_heartbeat_count, food_plans,
                  settings_audio_enabled, settings_audio_file_url, handle,
                  timers, dispatched, fires_since_reset, silent >>

\* the tail of _mqtt_cmd_food_plans: Storage.food_plans_set writes the set
\* as a dict to the entity state, Backend.food_plans_set keeps and pushes it
PlanApplied(payload, food_plan, food_plans_new, g) ==
  /\ food_plans' = food_plans_new
  /\ log' = << Cb("storage_food_plans_set",
                  << FoodPlans_to_dict(food_plans_new) >>) >>
            \o _device_food_plans_sync(food_plans_new, g)
  /\ last' = [NoLast EXCEPT !.op = "plan_set", !.result = "ok",
                            !.was_online = is_online,
                            !.prev_count = last_heartbeat_count,
                            !.prev_handle = handle, !.plans = food_plans,
                            !.plan = food_plan, !.payload = payload]
  /\ UNCHANGED << is_online, last_heartbeat_count, settings_audio_enabled,
                  settings_audio_file_url, handle, timers, dispatched,
                  fires_since_reset, silent >>

\* _mqtt_cmd_food_plans that answers a payload it cannot use by pushing the
\* stored plans once more
_mqtt_cmd_food_plans_resends(payload, g) ==
  IF json_loads_raises(payload) \/ FoodPlan_from_dict_raises(payload)
  THEN PlanApplied(payload, NoPlan, food_plans, g)
  ELSE PlanApplied(payload, FoodPlan_from_dict(payload),
                   plan_set(FoodPlans_from_dict(FoodPlans_to_dict(food_plans)),
                            FoodPlan_from_dict(payload)), g)

\* _mqtt_cmd_food_plans that appends the plan whatever its id
_mqtt_cmd_food_plans_appends(payload, g) ==
  IF json_loads_raises(payload) \/ FoodPlan_from_dict_raises(payload)
  THEN PlanIgnored(payload)
  ELSE PlanApplied(payload, FoodPlan_from_dict(payload),
                   plan_set_append(
                     FoodPlans_from_dict(FoodPlans_to_dict(food_plans)),
                     FoodPlan_from_dict(payload)), g)

\* Plaf203._mqtt_cmd_food_plans: the user publishes one plan. A payload that
\* json.loads or FoodPlan.from_dict refuses is logged and dropped; otherwise
\* the stored set is read back from the storage, the plan is set in it, the
\* set is stored and handed to Backend.food_plans_set, which pushes it
_mqtt_cmd_food_plans(payload, g) ==
  IF json_loads_raises(payload) \/ FoodPlan_from_dict_raises(payload)
  THEN PlanIgnored(payload)
  ELSE PlanApplied(payload, FoodPlan_from_dict(payload),
                   plan_set(FoodPlans_from_dict(FoodPlans_to_dict(food_plans)),
                            FoodPlan_from_dict(payload)), g)

UserPlanSet ==
  \E payload \in PlanPayloads \cup BadPlanPayloads, g \in GenIds :
    _mqtt_cmd_food_plans(payload, g)

NextPlans == UserPlanSet

SpecPlans == Init /\ [][NextPlans]_vars

\* positions of the plans with the id n in a plan list
WithId(plans, n) == { i \in 1..Len(plans) : plans[i].id_ = n }

\* C22: plan_set(p) on a set that holds a plan with p's id replaces that
\* plan's fields in place: the number of plans and every other plan stay as
\* they were. On a set without p's id it appends p at the end and the
\* number of plans grows by one.
C22_ReplaceInPlaceOrAppend ==
  last.op = "plan_set"
  => LET before == last.plans
         p == last.plan
     IN  IF WithId(before, p.id_) # { }
         THEN /\ Len(food_plans) = Len(before)
              /\ \A i \in 1..Len(before) :
                   food_plans[i] = IF i \in WithId(before, p.id_)
                                   THEN p ELSE before[i]
         ELSE /\ Len(food_plans) = Len(before) + 1
              /\ food_plans[Len(food_plans)] = p
              /\ \A i \in 1..Len(before) : food_plans[i] = before[i]

\* a plan replaced one with other fields at the first of two positions
C22_Witness ==
  /\ last.op = "plan_set"
  /\ Len(last.plans) = 2
  /\ Len(food_plans) = 2
  /\ last.plans[1].id_ = last.plan.id_
  /\ last.plans[1] # last.plan
  /\ food_plans[1] = last.plan
  /\ food_plans[2] = last.plans[2]

\* C23: applying the same FoodPlan a second time leaves the stored plan
\* set (number of plans, order, every field) as the first application left it.
C23_PlanSetIdempotent ==
  [][ ( last.op = "plan_set" /\ last'.op = "plan_set"
        /\ last'.plan = last.plan )
      => food_plans' = food_plans ]_vars

\* the plan just applied was already stored with the same fields
C23_Witness ==
  /\ last.op = "plan_set"
  /\ Len(food_plans) = 2
  /\ last.plans = food_plans
  /\ \E i \in 1..2 : food_plans[i] = last.plan

(* ------------------------------- router ------------------------------- *)
\* payloads that are no JSON, JSON objects without cmd, and for every
\* command one envelope that lacks a field its In class reads
Malformed ==
  { [NoEnv EXCEPT !.form = "not_json"], [NoEnv EXCEPT !.form = "no_cmd"] }
  \cup { [e EXCEPT !.form = "no_field"] : e \in { o \in OnePerCmd : o.cmd \in Commands } }

\* a malformed payload arrives; text without a cmd can arrive on any topic
DeliverMalformed ==
  \E env \in Malformed :
    \E topic \in { t \in Topics : env.form # "no_field" \/ env.cmd \in RecvCmds(t) } :
      Receive(topic, env, << CHOOSE g \in GenIds : TRUE,
                             CHOOSE g \in GenIds : TRUE,
                             CHOOSE g \in GenIds : TRUE >>)

\* envelopes of the commands Backend registers no handler for
DeliverUnhandled == DeliverFrom(UnhandledCmds)

\* heartbeats, which bring the device online and reset the watchdog
DeliverHeartbeat == DeliverFrom({ "HEARTBEAT" })

NextRouter ==
  \/ DeliverHeartbeat
  \/ DeliverUnhandled
  \/ DeliverForeign
  \/ DeliverMalformed

SpecRouter == Init /\ [][NextRouter]_vars

\* the last receive callback returned rather than raised
Returned == last.result \in { "ok", "dropped", "unknown_cmd" }

\* the last receive callback left the Session state and the watchdog alone
\* and published nothing
Untouched ==
  /\ log = << >>
  /\ is_online = last.was_online
  /\ last_heartbeat_count = last.prev_count
  /\ handle = last.prev_handle

\* C24: an envelope whose command its topic's receive callback recognises
\* but for which no handler is registered (OTA_INFORM, OTA_PROGRESS,
\* DEVICE_FEEDING_PLAN_SERVICE, ERROR_EVENT, RESET, ...) is dropped: the
\* callback returns normally, nothing is published and the Session state is
\* unchanged.
C24_UnregisteredSilentlyDropped ==
  ( last.op = "recv" /\ last.env.form = "ok"
    /\ last.env.cmd \in RecvCmds(last.topic)
    /\ last.env.cmd \notin Registered )
  => /\ last.result = "dropped"
     /\ Untouched

\* C25: a well-formed envelope of a command with a registered handler is
\* delivered to that handler on whichever of the seven post topics it
\* arrives.
C25_DispatchByCommandNotTopic ==
  ( last.op = "recv" /\ last.env.cmd \in Registered /\ Decodes(last.env) )
  => last.handled

\* C26: an envelope whose cmd is no known command, on any of the seven
\* topics, is only reported: the receive callback returns normally, no
\* handler runs, nothing is published, the Session state, the plans, the
\* audio cache and the watchdog (handle, timers, queued callbacks) stay as
\* they were, so that what arrives afterwards is processed as before.
C26_UnknownCmdOnlyReported ==
  [][ ( last'.op = "recv" /\ last'.env.form = "ok"
        /\ last'.env.cmd \notin Commands )
      => /\ last'.result = "unknown_cmd"
         /\ ~ last'.handled
         /\ log' = << >>
         /\ UNCHANGED << is_online, last_heartbeat_count, food_plans,
                         settings_audio_enabled, settings_audio_file_url,
                         handle, timers, dispatched, fires_since_reset >>
    ]_vars

\* an unknown cmd was reported while the device was online
C26_Witness ==
  /\ last.op = "recv"
  /\ last.env.cmd = "BOGUS"
  /\ last.topic = "heart"
  /\ last.result = "unknown_cmd"
  /\ last.was_online
  /\ is_online
  /\ log = << >>

\* C27: a payload that is no JSON, has no cmd, or lacks a field its command
\* requires is logged and dropped: the receive callback returns rather than
\* raises, no handler runs, nothing is published and the Session state is
\* unchanged.
C27_MalformedLoggedAndDropped ==
  ( last.op = "recv" /\ last.env.form # "ok" )
  => /\ Returned
     /\ ~ last.handled
     /\ Untouched

(* --------------------------- attribute codec -------------------------- *)
\* out-of-range percentages tried on either side of 0..100
MaxOver == 1

\* at most this many attributes are present in one sparse delta
MaxAttrs == 2

\* the attribute keys followed through the codec
AttrKeys ==
  { "enableAudio", "volume", "electricQuantity", "lightAgingType",
    "cameraAgingType", "nightVision", "videoRecordMode", "sdCardFileSystem",
    "lightingStartTimeUtc" }

\* the keys AttrSetServiceOut has a field for
Settable == AttrKeys \ { "electricQuantity", "sdCardFileSystem" }

\* wire values a device payload carries for a key, each tagged with its
\* JSON type ("hhmm" is the string HH:MM, held as <<hour, minute>>)
WireValues(key) ==
  CASE key = "enableAudio" -> { <<"int", 0>>, <<"int", 1>> }
    [] key = "volume" -> { <<"int", 0>>, <<"int", 100>>, <<"int", 101>> }
    [] key = "electricQuantity" -> { <<"int", 50>>, <<"int", -1>> }
    [] key = "lightAgingType" -> { <<"int", 1>>, <<"int", 2>> }
    [] key = "cameraAgingType" -> { <<"int", 1>> }
    [] key = "nightVision" -> { <<"str", "OPEN">> }
    [] key = "videoRecordMode" -> { <<"str", "CONTINUOUS">>, <<"str", "TIMELAPSE">> }
    [] key = "sdCardFileSystem" -> { <<"str", "FAT32">>, <<"str", "EXT4">> }
    [] key = "lightingStartTimeUtc" -> { <<"hhmm", <<6, 30>> >> }

\* a delta without any attribute
NoDelta == [k \in AttrKeys |-> << >>]

\* sparse deltas: every key is << >> when absent and <<w>> when present
AttrDeltas ==
  UNION { { [k \in AttrKeys |-> IF k \in present THEN << f[k] >> ELSE << >>] :
            f \in { h \in [present -> UNION { WireValues(k) : k \in present }] :
                      \A k \in present : h[k] \in WireValues(k) } } :
          present \in { ks \in SUBSET AttrKeys : Cardinality(ks) <= MaxAttrs } }

\* a constructor or lookup that raised
Raised == [ok |-> FALSE, value |-> 0]

\* PercentageInt whose upper limit is exclusive
PercentageInt_open_top(percentage_value) ==
  IF percentage_value < 0 \/ percentage_value >= 100
  THEN Raised
  ELSE [ok |-> TRUE, value |-> percentage_value]

\* PercentageInt.__init__: ValueError outside 0..100, else the value is kept
PercentageInt(percentage_value) ==
  IF percentage_value < 0 \/ percentage_value > 100
  THEN Raised
  ELSE [ok |-> TRUE, value |-> percentage_value]

\* SdCardFileSystem.from_mqtt_payload_value
SdCardFileSystem_from_mqtt_payload_value(value) ==
  CASE value = "FAT32" -> "FAT32"
    [] value = "FAT" -> "FAT"
    [] value = "EXFAT" -> "EXFAT"
    [] value = "NTFS" -> "NTFS"
    [] value = "unknown type" -> "UNKNOWN"
    [] OTHER -> "INVALID"

\* member names of the enumerations looked up by name, Enum[name]
NightVision == { "AUTOMATIC", "OPEN", "CLOSE" }

VideoRecordMode == { "CONTINUOUS", "MOTION_DETECTION" }

\* values of AgingType, looked up by value, AgingType(value)
AgingType == { 0, 1, 2 }

\* the expression AttrPushEventIn.from_mqtt_payload evaluates for a present
\* key raises: PercentageInt out of range, an enumeration without the value
\* or name, and HourMinTimestamp.from_mqtt_payload_value, which reads the
\* undefined name time_string
FieldRaises(key, w) ==
  CASE key \in { "volume", "electricQuantity" } -> ~ PercentageInt(w[2]).ok
    [] key \in { "lightAgingType", "cameraAgingType" } -> w[2] \notin AgingType
    [] key = "nightVision" -> w[2] \notin NightVision
    [] key = "videoRecordMode" -> w[2] \notin VideoRecordMode
    [] key = "lightingStartTimeUtc" -> TRUE
    [] OTHER -> FALSE

\* the object that expression yields otherwise, tagged with its class
FieldDecoded(key, w) ==
  CASE key \in { "volume", "electricQuantity" } ->
         << "PercentageInt", PercentageInt(w[2]).value >>
    [] key \in { "lightAgingType", "cameraAgingType" } -> << "AgingType", w[2] >>
    [] key = "nightVision" -> << "NightVision", w[2] >>
    [] key = "videoRecordMode" -> << "VideoRecordMode", w[2] >>
    [] key = "sdCardFileSystem" ->
         << "SdCardFileSystem", SdCardFileSystem_from_mqtt_payload_value(w[2]) >>
    [] OTHER -> w

\* AttrPushEventIn.from_mqtt_payload: ok tells whether it returned; a key
\* absent from the payload stays None (<< >>)
from_mqtt_payload(payload) ==
  LET present == { k \in AttrKeys : payload[k] # << >> }
      ok == \A k \in present : ~ FieldRaises(k, payload[k][1])
  IN  [ok |-> ok,
       data |-> [k \in AttrKeys |->
                   IF ok /\ k \in present
                   THEN << FieldDecoded(k, payload[k][1]) >> ELSE << >>]]

\* the value AttrSetServiceOut.to_mqtt_payload writes for a field that is
\* not None: 1 or 0 for enable_audio, value_get() of a percentage, .value or
\* .name of an enumeration, and for light_aging_type the member itself
FieldEncoded(key, x) ==
  CASE key = "enableAudio" ->
         << "int", IF x = <<"int", 1>> THEN 1 ELSE 0 >>
    [] key = "volume" -> << "int", x[2] >>
    [] key = "cameraAgingType" -> << "int", x[2] >>
    [] key \in { "nightVision", "videoRecordMode" } -> << "str", x[2] >>
    [] key = "lightingStartTimeUtc" -> << "hhmm", to_mqtt_payload_value(x[2]) >>
    [] OTHER -> x

\* AttrSetServiceOut.to_mqtt_payload over the fields it has
to_mqtt_payload(data) ==
  [k \in AttrKeys |->
     IF k \in Settable /\ data[k] # << >>
     THEN << FieldEncoded(k, data[k][1]) >> ELSE << >>]

\* a sparse delta is decoded and its settable fields are encoded again; the
\* payload, the decoder's outcome and the new payload are recorded
AttrRoundTrip ==
  \E payload \in AttrDeltas :
    LET decoded == from_mqtt_payload(payload)
    IN  /\ log' = << Cb("attr_round_trip",
                        << payload, decoded.ok, decoded.data,
                           to_mqtt_payload(decoded.data) >>) >>
        /\ last' = [NoLast EXCEPT !.op = "attr_round_trip",
                                  !.result = IF decoded.ok THEN "ok"
                                                           ELSE "raised"]
        /\ UNCHANGED << is_online, last_heartbeat_count, food_plans,
                        settings_audio_enabled, settings_audio_file_url,
                        handle, timers, dispatched, fires_since_reset, silent >>

\* the volumes a user publishes on sound/cmd/volume
Volumes == (0 - MaxOver)..(100 + MaxOver)

\* Plaf203._mqtt_cmd_sound_volume_cb: PercentageInt(int(payload)) is built
\* and handed to Backend.settings_sound, which publishes ATTR_SET_SERVICE;
\* the payload and the constructor's outcome are recorded first
_mqtt_cmd_sound_volume_cb(payload, g) ==
  LET volume == PercentageInt(payload)
  IN  /\ log' = << Cb("PercentageInt", << payload, volume.ok, volume.value >>) >>
                \o ( IF volume.ok
                     THEN << Pub("service", "ATTR_SET_SERVICE", g, NoCode,
                                 to_mqtt_payload(
                                   [NoDelta EXCEPT !.volume =
                                      << << "PercentageInt", volume.value >> >>])) >>
                     ELSE << >> )
      /\ last' = [NoLast EXCEPT !.op = "sound_volume",
                                !.result = IF volume.ok THEN "ok" ELSE "raised"]
      /\ UNCHANGED << is_online, last_heartbeat_count, food_plans,
                      settings_audio_enabled, settings_audio_file_url,
                      handle, timers, dispatched, fires_since_reset, silent >>

UserSoundVolume ==
  \E payload \in Volumes, g \in GenIds : _mqtt_cmd_sound_volume_cb(payload, g)

NextCodec ==
  \/ AttrRoundTrip
  \/ UserSoundVolume

SpecCodec == Init /\ [][NextCodec]_vars

\* C28: decoding a sparse attribute delta and encoding the decoded settable
\* fields again succeeds and yields, for every settable key present in the
\* delta, the same key with the same wire value (type and value), and no
\* key that was absent from the delta.
C28_AttrDeltaRoundTrips ==
  last.op = "attr_round_trip"
  => LET payload == log[1].arg[1]
         ok == log[1].arg[2]
         out == log[1].arg[4]
     IN  /\ ok
         /\ \A k \in AttrKeys :
              IF k \in Settable /\ payload[k] # << >>
              THEN /\ out[k] # << >>
                   /\ out[k][1][1] = payload[k][1][1]
                   /\ out[k][1][2] = payload[k][1][2]
              ELSE out[k] = << >>

\* C29: a delta whose videoRecordMode is no recognised mode decodes, with
\* that field an explicit INVALID member; a delta whose sdCardFileSystem is
\* no recognised file system has that field INVALID once it decodes.
C29_UnknownEnumDecodesInvalid ==
  last.op = "attr_round_trip"
  => LET payload == log[1].arg[1]
         ok == log[1].arg[2]
         data == log[1].arg[3]
         only(k) == \A j \in AttrKeys \ { k } : payload[j] = << >>
     IN  /\ ( only("videoRecordMode") /\ payload.videoRecordMode # << >>
              /\ payload.videoRecordMode[1][2] \notin VideoRecordMode )
            => /\ ok
               /\ data.videoRecordMode = << << "VideoRecordMode", "INVALID" >> >>
         /\ ( only("sdCardFileSystem") /\ payload.sdCardFileSystem # << >>
              /\ payload.sdCardFileSystem[1][2]
                   \notin { "FAT32", "FAT", "EXFAT", "NTFS", "unknown type" } )
            => /\ ok
               /\ data.sdCardFileSystem = << << "SdCardFileSystem", "INVALID" >> >>

\* C30: PercentageInt(v) is constructed, holding v, iff 0 <= v <= 100, and
\* raises otherwise. A volume published by the user is sent to the device
\* only when it is constructed, with that value; a delta that carries only
\* percentages decodes iff each of them is in 0..100, to the same values.
C30_PercentageRange ==
  /\ last.op = "sound_volume"
     => LET v == log[1].arg[1]
            ok == log[1].arg[2]
        IN  /\ ok <=> (0 <= v /\ v <= 100)
            /\ ok => /\ log[1].arg[3] = v
                     /\ Len(log) = 2
                     /\ log[2].arg.volume = << << "int", v >> >>
            /\ ~ ok => Len(log) = 1 /\ last.result = "raised"
  /\ last.op = "attr_round_trip"
     => LET payload == log[1].arg[1]
            ok == log[1].arg[2]
            data == log[1].arg[3]
            pct == { k \in { "volume", "electricQuantity" } : payload[k] # << >> }
        IN  ( pct # { } /\ \A k \in AttrKeys \ pct : payload[k] = << >> )
            => /\ ok <=> \A k \in pct : payload[k][1][2] \in 0..100
               /\ ok => \A k \in pct :
                          data[k] = << << "PercentageInt", payload[k][1][2] >> >>

\* the limits themselves were constructed and something beyond was refused
C30_Witness ==
  /\ last.op = "sound_volume"
  /\ log[1].arg[1] = 100
  /\ log[1].arg[2]
  /\ Len(log) = 2

\* ---------------------------------------------------------------------
\* Reply topics
\* ---------------------------------------------------------------------

\* the sub topic every published message named cmd went out on
PubTopics(cmd) == { log[i].topic : i \in Pubs(cmd) }

\* C31: the replies to GET_FEEDING_PLAN_EVENT and GRAIN_OUTPUT_EVENT are
\* published on the service sub topic, the replies to ATTR_PUSH_EVENT and
\* DEVICE_START_EVENT on the event sub topic
C31_ReplyTopics ==
  (last.op = "recv" /\ last.handled) =>
    /\ PubTopics("GET_FEEDING_PLAN_EVENT") \subseteq { "service" }
    /\ PubTopics("GRAIN_OUTPUT_EVENT") \subseteq { "service" }
    /\ PubTopics("ATTR_PUSH_EVENT") \subseteq { "event" }
    /\ PubTopics("DEVICE_START_EVENT") \subseteq { "event" }
    /\ (last.env.cmd \in { "GET_FEEDING_PLAN_EVENT", "GRAIN_OUTPUT_EVENT",
                           "ATTR_PUSH_EVENT" } /\ last.result = "ok")
         => PubTopics(last.env.cmd) # { }

C31_Witness ==
  /\ last.op = "recv" /\ last.handled
  /\ last.env.cmd = "ATTR_PUSH_EVENT"
  /\ last.topic = "event"
  /\ PubTopics("ATTR_PUSH_EVENT") = { "event" }

\* ---------------------------------------------------------------------
\* Online implies armed
\* ---------------------------------------------------------------------

\* C32: after any handler (heartbeat, acknowledgement, event, watchdog
\* trigger) has finished, normally or by raising, an ONLINE Session has its
\* heartbeat watchdog armed: a timer is pending, or already handed over and
\* about to run the trigger, so that the Session becomes OFFLINE once the
\* heartbeats stop
C32_OnlineImpliesArmed ==
  ( last.op \in { "recv", "watchdog" } /\ is_online )
  => timers # { } \/ dispatched # { }

\* ---------------------------------------------------------------------
\* Reported online state
\* ---------------------------------------------------------------------

\* positions of the went-online / went-offline callbacks of the last handler
Reports ==
  { i \in DOMAIN log : log[i].kind = "cb"
                       /\ log[i].name \in { "went_online", "went_offline" } }

\* the most recent of them
LastReport == CHOOSE i \in Reports : \A j \in Reports : j <= i

\* C33: after every handler the online state last reported to the listeners
\* equals is_online; in particular a handler that reported at all ends with
\* is_online equal to what its most recent went-online / went-offline
\* callback said
C33_ReportedStateIsSessionState ==
  ( last.op \in { "recv", "watchdog" } /\ Reports # { } )
  => ( is_online <=> log[LastReport].name = "went_online" )

\* ---------------------------------------------------------------------
\* Count regression
\* ---------------------------------------------------------------------

\* C34: a heartbeat whose count is lower than the previous one, processed
\* while ONLINE, runs the full resynchronisation within the same handler:
\* GET_CONFIG, ATTR_GET_SERVICE and FEEDING_PLAN_SERVICE are published, the
\* handler ends ONLINE, and a went-online callback follows the went-offline
\* callback
C34_CountRegressionResyncs ==
  ( Handled("HEARTBEAT") /\ last.was_online
    /\ last.env.count < last.prev_count )
  => /\ Pubs("GET_CONFIG") # { }
     /\ Pubs("ATTR_GET_SERVICE") # { }
     /\ Pubs("FEEDING_PLAN_SERVICE") # { }
     /\ is_online
     /\ \E i, j \in DOMAIN log :
          /\ i < j
          /\ log[i] = Cb("went_offline", << >>)
          /\ log[j] = Cb("went_online", << >>)

\* ---------------------------------------------------------------------
\* Drift outcome on coming online
\* ---------------------------------------------------------------------

\* C35: a heartbeat processed while OFFLINE reports the outcome of its drift
\* check exactly once: one ntp-sync-status callback, with FALSE when the
\* device timestamp differs from the server's by the threshold or more and
\* with TRUE otherwise, and the handler ends normally in both cases
C35_DriftOutcomeReportedOnce ==
  ( Handled("HEARTBEAT") /\ ~ last.was_online )
  => /\ last.result = "ok"
     /\ CallbacksNamed("ntp_sync_status")
          = << Cb("ntp_sync_status", << ~ Drifted >>) >>

\* ---------------------------------------------------------------------
\* NTP probe
\* ---------------------------------------------------------------------

\* all envelopes the last operation published
Published == SelectSeq(log, LAMBDA e : e.kind = "pub")

\* C36: every NTP probe is answered by exactly one NTP reply on the ntp sub
\* topic, with code OK, the current server time (to the second) and the UTC
\* offset, without msgId, and with calibrationTag true exactly when the drift
\* check fails; no NTP_SYNC is published and the online state is unchanged
C36_NtpProbeAnswered ==
  Handled("NTP")
  => /\ last.result = "ok"
     /\ Len(Published) = 1
     /\ Published[1].topic = "ntp"
     /\ Published[1].name = "NTP"
     /\ Published[1].msgId = None
     /\ Published[1].code = OK
     /\ Published[1].arg[1] = Drifted
     /\ Published[1].arg[2] <= Now /\ Now - Published[1].arg[2] < 1000
     /\ Published[1].arg[3] = TimezoneOffsetHours
     /\ Pubs("NTP_SYNC") = { }
     /\ is_online = last.was_online

C36_Witness ==
  /\ Handled("NTP")
  /\ Drifted
  /\ Len(Published) = 1
  /\ Published[1].arg[1] = TRUE

\* ---------------------------------------------------------------------
\* User operations of Backend
\* ---------------------------------------------------------------------

\* what a caller may pass for an optional argument: << >> is None
Enables == { << >>, << TRUE >>, << FALSE >> }
FileUrls == { << >>, << "u2" >> }

\* settings_audio that sends the request without remembering what it sent
settings_audio_forgets(enable, file_url, g) ==
  LET enable_audio == IF enable # << >> THEN enable[1] ELSE settings_audio_enabled
      audio_url == IF file_url # << >> THEN file_url[1] ELSE settings_audio_file_url
  IN  Ret(<< Pub("service", "ATTR_SET_SERVICE", g, NoCode,
                 [enableAudio |-> << IF enable_audio = TRUE THEN 1 ELSE 0 >>,
                  audioUrl |-> << audio_url >>]) >>, "ok", FALSE)

\* Backend.settings_audio: an argument left out is taken from the cache, an
\* argument given is cached; AttrSetServiceOut.to_mqtt_payload writes every
\* field that is not None
settings_audio(enable, file_url, g) ==
  LET enable_audio == IF enable # << >> THEN enable[1] ELSE settings_audio_enabled
      audio_url == IF file_url # << >> THEN file_url[1] ELSE settings_audio_file_url
  IN  [Ret(<< Pub("service", "ATTR_SET_SERVICE", g, NoCode,
                  [enableAudio |-> << IF enable_audio = TRUE THEN 1 ELSE 0 >>,
                   audioUrl |-> << audio_url >>]) >>, "ok", FALSE)
         EXCEPT !.audio = << enable_audio, audio_url >>]

\* the other settings_* methods: the payload keys of the arguments given
settings_camera(given, g) ==
  Ret(<< Pub("service", "ATTR_SET_SERVICE", g, NoCode, given) >>, "ok", FALSE)

settings_recording(given, g) ==
  Ret(<< Pub("service", "ATTR_SET_SERVICE", g, NoCode, given) >>, "ok", FALSE)

settings_sound(given, g) ==
  Ret(<< Pub("service", "ATTR_SET_SERVICE", g, NoCode, given) >>, "ok", FALSE)

settings_motion_detection(given, g) ==
  Ret(<< Pub("service", "ATTR_SET_SERVICE", g, NoCode, given) >>, "ok", FALSE)

settings_sound_detection(given, g) ==
  Ret(<< Pub("service", "ATTR_SET_SERVICE", g, NoCode, given) >>, "ok", FALSE)

settings_cloud_video_recording(given, g) ==
  Ret(<< Pub("service", "ATTR_SET_SERVICE", g, NoCode, given) >>, "ok", FALSE)

\* light_aging_type is written to the payload as the enum member itself,
\* which json.dumps refuses
settings_button_lights(given, g) ==
  IF "lightAgingType" \in given
  THEN Ret(<< >>, "raised", FALSE)
  ELSE Ret(<< Pub("service", "ATTR_SET_SERVICE", g, NoCode, given) >>,
           "ok", FALSE)

settings_buttons_auto_lock(given, g) ==
  Ret(<< Pub("service", "ATTR_SET_SERVICE", g, NoCode, given) >>, "ok", FALSE)

settings_feeding_video(given, g) ==
  Ret(<< Pub("service", "ATTR_SET_SERVICE", g, NoCode, given) >>, "ok", FALSE)

food_manual_feed_now(grain_num, g) ==
  Ret(<< Pub("service", "MANUAL_FEEDING_SERVICE", g, NoCode, << grain_num >>) >>,
      "ok", FALSE)

\* device_reboot that already declares the device offline
device_reboot_goes_offline(g) ==
  Ret(<< Pub("system", "DEVICE_REBOOT", g, NoCode, << >>), SetOnline(FALSE) >>,
      "ok", FALSE)

device_reboot(g) ==
  Ret(<< Pub("system", "DEVICE_REBOOT", g, NoCode, << >>) >>, "ok", FALSE)

device_factory_reset(g) ==
  Ret(<< Pub("system", "RESTORE", g, NoCode, << >>) >>, "ok", FALSE)

device_wifi_reconnect(g) ==
  Ret(<< Pub("service", "WIFI_RECONNECT_SERVICE", g, NoCode, << >>) >>,
      "ok", FALSE)

device_sd_card_format(g) ==
  Ret(<< Pub("service", "INITIALIZE_SD_CARD_SERVICE", g, NoCode, << >>) >>,
      "ok", FALSE)

\* payload keys of the arguments of each settings_* method besides
\* settings_audio
SettingsKeys(op) ==
  CASE op = "settings_camera" ->
         { "cameraSwitch", "cameraAgingType", "nightVision", "resolution" }
    [] op = "settings_recording" ->
         { "videoRecordSwitch", "videoRecordAgingType", "videoRecordMode" }
    [] op = "settings_sound" -> { "soundSwitch", "soundAgingType", "volume" }
    [] op = "settings_motion_detection" ->
         { "motionDetectionSwitch", "motionDetectionAgingType",
           "motionDetectionRange", "motionDetectionSensitivity" }
    [] op = "settings_sound_detection" ->
         { "soundDetectionSwitch", "soundDetectionAgingType",
           "soundDetectionSensitivity" }
    [] op = "settings_cloud_video_recording" -> { "cloudVideoRecordSwitch" }
    [] op = "settings_button_lights" -> { "lightSwitch", "lightAgingType" }
    [] op = "settings_buttons_auto_lock" -> { "autoChangeMode", "autoThreshold" }
    [] op = "settings_feeding_video" ->
         { "feedingVideoSwitch", "enableVideoStartFeedingPlan",
           "enableVideoAfterManualFeeding", "beforeFeedingPlanTime",
           "automaticRecording", "afterManualFeedingTime",
           "videoWatermarkSwitch" }

SettingsOps ==
  { "settings_camera", "settings_recording", "settings_sound",
    "settings_motion_detection", "settings_sound_detection",
    "settings_cloud_video_recording", "settings_button_lights",
    "settings_buttons_auto_lock", "settings_feeding_video" }

DeviceOps ==
  { "device_reboot", "device_factory_reset", "device_wifi_reconnect",
    "device_sd_card_format" }

\* every user-initiated operation of Backend
UserOps ==
  SettingsOps \cup DeviceOps
    \cup { "settings_audio", "food_manual_feed_now", "food_plans_set" }

\* the arguments of one call
NoArgs == [enable |-> << >>, file_url |-> << >>, given |-> { }, grain_num |-> 0]

\* calls of the operations other than food_plans_set and settings_audio: a
\* settings_* method is called without arguments, with its switch only or
\* with all arguments
Calls ==
  UNION { { << op, [NoArgs EXCEPT !.given = given] >> :
              given \in { { }, { "lightSwitch" } \cap SettingsKeys(op),
                          SettingsKeys(op) } } :
          op \in SettingsOps }
  \cup { << "food_manual_feed_now", [NoArgs EXCEPT !.grain_num = n] >> :
           n \in Quantities }
  \cup { << op, NoArgs >> : op \in DeviceOps }

\* the method of Backend a call runs
Operation(op, a, g) ==
  CASE op = "settings_audio" -> settings_audio(a.enable, a.file_url, g)
    [] op = "settings_camera" -> settings_camera(a.given, g)
    [] op = "settings_recording" -> settings_recording(a.given, g)
    [] op = "settings_sound" -> settings_sound(a.given, g)
    [] op = "settings_motion_detection" -> settings_motion_detection(a.given, g)
    [] op = "settings_sound_detection" -> settings_sound_detection(a.given, g)
    [] op = "settings_cloud_video_recording" ->
         settings_cloud_video_recording(a.given, g)
    [] op = "settings_button_lights" -> settings_button_lights(a.given, g)
    [] op = "settings_buttons_auto_lock" -> settings_buttons_auto_lock(a.given, g)
    [] op = "settings_feeding_video" -> settings_feeding_video(a.given, g)
    [] op = "food_manual_feed_now" -> food_manual_feed_now(a.grain_num, g)
    [] op = "device_reboot" -> device_reboot(g)
    [] op = "device_factory_reset" -> device_factory_reset(g)
    [] op = "device_wifi_reconnect" -> device_wifi_reconnect(g)
    [] op = "device_sd_card_format" -> device_sd_card_format(g)

\* the user calls an operation; last.env.attrs keeps the arguments of
\* settings_audio
Invoke(op, a, g) ==
  LET r == Operation(op, a, g)
  IN  /\ is_online' = ApplySets(r.effects, is_online)
      /\ last_heartbeat_count' = r.count
      /\ settings_audio_enabled' = r.audio[1]
      /\ settings_audio_file_url' = r.audio[2]
      /\ log' = r.effects
      /\ last' = [NoLast EXCEPT
                    !.op = op, !.result = r.result, !.was_online = is_online,
                    !.prev_count = last_heartbeat_count, !.prev_handle = handle,
                    !.env = [NoEnv EXCEPT
                               !.attrs = [NoAttrs EXCEPT
                                            !.enableAudio = a.enable,
                                            !.audioUrl = a.file_url]]]
      /\ UNCHANGED << food_plans, handle, timers, dispatched,
                      fires_since_reset, silent >>

UserOperation ==
  \E c \in Calls, g \in GenIds : Invoke(c[1], c[2], g)

\* the user switches the audio on or asks for the cached settings to be sent
UserAudioSwitch ==
  \E e \in { << >>, << TRUE >> }, g \in GenIds :
    Invoke("settings_audio", [NoArgs EXCEPT !.enable = e], g)

\* envelopes of the commands whose handler assigns is_online
DeliverOnlineStateCmds ==
  DeliverFrom({ "HEARTBEAT", "DEVICE_REBOOT", "RESTORE",
                "WIFI_RECONNECT_SERVICE" })

\* a pending watchdog timer runs out and the scheduler runs
\* Watchdog._watchdog_run at once, before any other callback of the app
WatchdogElapses ==
  \E t \in timers :
    LET r == _heartbeat_watchdog_trigger
    IN  /\ dispatched = { }
        /\ timers' = timers \ { t }
        /\ handle' = None
        /\ is_online' = ApplySets(r.effects, is_online)
        /\ fires_since_reset' =
             IF fires_since_reset < 2 THEN fires_since_reset + 1 ELSE 2
        /\ log' = r.effects
        /\ last' = [NoLast EXCEPT !.op = "watchdog", !.result = r.result,
                                  !.handled = TRUE, !.was_online = is_online,
                                  !.prev_count = last_heartbeat_count,
                                  !.prev_handle = handle, !.timer = t.id]
        /\ UNCHANGED << last_heartbeat_count, food_plans,
                        settings_audio_enabled, settings_audio_file_url,
                        dispatched, silent >>

\* one envelope of every other command Backend has a handler for
DeliverOtherCmds ==
  \E env \in { e \in OnePerCmd : e.cmd \in Registered } :
    \E topic \in { t \in Topics : env.cmd \in RecvCmds(t) }, g \in GenIds :
      /\ env.cmd \notin { "HEARTBEAT", "DEVICE_REBOOT", "RESTORE",
                           "WIFI_RECONNECT_SERVICE" }
      /\ Receive(topic, env, << g, g, g >>)

NextUser ==
  \/ DeliverOnlineStateCmds
  \/ DeliverOtherCmds
  \/ UserFoodPlansSet
  \/ UserOperation
  \/ UserAudioSwitch
  \/ WatchdogElapses

SpecUser == Init /\ [][NextUser]_vars

UserSettingsAudio ==
  \E e \in Enables, u \in FileUrls, g \in GenIds :
    Invoke("settings_audio", [NoArgs EXCEPT !.enable = e, !.file_url = u], g)

\* inbound attribute reports of the device
DeliverAttrs == DeliverFrom({ "ATTR_GET_SERVICE", "ATTR_PUSH_EVENT" })

NextAudio ==
  \/ UserSettingsAudio
  \/ DeliverAttrs

SpecAudio == Init /\ [][NextAudio]_vars

\* the value a field takes when x, << >> or <<v>>, is laid over old
Over(x, old) == IF x # << >> THEN x[1] ELSE old

Ids(plans) == { plans[i].id_ : i \in 1..Len(plans) }

\* C39: plan ids stay unique: no two stored plans share an id, so there are
\* as many plans as distinct ids; a plan_set call adds exactly the id of its
\* plan to the ids stored before, and it changes the number of plans by 0 or
\* by +1
C39_PlanIdsUnique ==
  /\ \A i, j \in 1..Len(food_plans) :
       food_plans[i].id_ = food_plans[j].id_ => i = j
  /\ Len(food_plans) = Cardinality(Ids(food_plans))
  /\ last.op = "plan_set"
       => /\ Ids(food_plans) = Ids(last.plans) \cup { last.plan.id_ }
          /\ Len(food_plans) - Len(last.plans) \in { 0, 1 }

\* a second id was set after a first one, and the first id was set again
C39_Witness ==
  /\ last.op = "plan_set"
  /\ Len(last.plans) = 2
  /\ Len(food_plans) = 2
  /\ last.plan.id_ = food_plans[1].id_
  /\ food_plans[1] # last.plans[1]
  /\ Ids(food_plans) = 1..2

\* ---------------------------------------------------------------------
\* Food-plan commands
\* ---------------------------------------------------------------------

\* the dicts Storage.food_plans_set wrote during the last operation
Saved == CallbacksNamed("storage_food_plans_set")

\* C40: a food-plan command whose payload is no JSON or cannot be converted
\* to a FoodPlan is ignored: nothing is saved, the in-memory set stays as it
\* was and no FEEDING_PLAN_SERVICE is published. A valid command applies
\* plan_set to the persisted set, saves it once and hands the same set to
\* Backend.food_plans_set: the saved set and the in-memory set have the same
\* content and exactly one push, of that set, was published
C40_PlanCommandAppliedOrIgnored ==
  last.op \in { "plan_set", "plan_ignored" }
  => /\ last.op = "plan_ignored" <=> last.payload \in BadPlanPayloads
     /\ last.op = "plan_ignored"
          => /\ log = << >>
             /\ food_plans = last.plans
     /\ last.op = "plan_set"
          => /\ last.plan = FoodPlan_from_dict(last.payload)
             /\ food_plans = plan_set(last.plans, last.plan)
             /\ Len(Saved) = 1
             /\ FoodPlans_from_dict(Saved[1].arg[1]) = food_plans
             /\ Len(Published) = 1
             /\ Published[1].name = "FEEDING_PLAN_SERVICE"
             /\ Published[1].arg
                  = [i \in 1..Len(food_plans) |-> FeedingPlanOut(food_plans[i], Now)]

\* a payload with an unknown day name was dropped while two plans are stored
C40_Witness ==
  /\ last.op = "plan_ignored"
  /\ "text" \notin DOMAIN last.payload
  /\ Len(food_plans) = 2
  /\ log = << >>

====
